---- MODULE Spec2Model ----
(***************************************************************************)
(* A model of the ChessVar rule engine (src/ChessVar.py).                  *)
(*                                                                         *)
(* A board position string is a tuple of one-character strings, so "e2"    *)
(* is <<"e","2">>; characters are compared through their code points as    *)
(* Python compares them.  The 32 pieces are numbered in the order in which *)
(* Player.__init__ creates them: 1..16 White, 17..32 Black.                *)
(***************************************************************************)
EXTENDS Integers, Sequences, FiniteSets, TLC

\* Number of accepted moves explored from the fresh game.
MaxMoves == 6

\* The number of accepted moves of the games that bring a pawn to the far
\* rank: five moves of the pawn, five of the other player, one more.
MaxPawnMoves == 11

\* The number of files written in a run.
MaxSaves == 1

\* The number of files loaded in a run.
MaxLoads == 1

VARIABLES
  board,       \* BoardPosition._piece of each key of Board._board_state
  position,    \* Piece._position of each piece, as the position's string
  piece_list,  \* Player._piece_list of each colour
  turn,        \* the colour of the Player ChessVar._turn refers to
  game_state,  \* ChessVar._game_state
  result,      \* what the last call of make_move returned or raised
  moves,       \* the number of accepted moves so far
  label_text,  \* the text of each of the 100 labels of GUI._grid_labels
  selected_spaces,  \* GUI._selected_spaces, the labels by their number
  root,        \* whether GUI._root is open or was destroyed
  dialog,      \* the message box a callback waits in, "None" when none is up
  file,        \* what the file of the Save Game and Load Game dialogs holds
  saves,       \* the number of files written so far
  loads,       \* the number of files loaded so far
  load_raised  \* what the load_game that made the present game raised,
               \* "None" when it returned or the game was not loaded

vars ==
  <<board, position, piece_list, turn, game_state, result, moves,
    label_text, selected_spaces, root, dialog, file, saves, loads, load_raised>>

\* The window of the GUI: the engine's own calls leave it alone.
gui == <<label_text, selected_spaces, root, dialog, file, saves, loads, load_raised>>

\* The engine's own data, without the outcome of the last call and the
\* exploration counter.
engine == <<board, position, piece_list, turn, game_state>>

-----------------------------------------------------------------------------
(* Characters, strings and None *)

\* Python's None for a piece reference, a position and a character.
NoPiece == 0
NonePos == <<>>
NoneChr == "None"

Files == <<"a", "b", "c", "d", "e", "f", "g", "h">>
Ranks == <<"1", "2", "3", "4", "5", "6", "7", "8">>

\* Code points of the characters that occur in requests.
Ord ==
  [c \in {"a", "b", "c", "d", "e", "f", "g", "h", "i", "x", "A",
          "0", "1", "2", "3", "4", "5", "6", "7", "8", "9"} |->
     CASE c = "a" -> 97 [] c = "b" -> 98 [] c = "c" -> 99 [] c = "d" -> 100
       [] c = "e" -> 101 [] c = "f" -> 102 [] c = "g" -> 103 [] c = "h" -> 104
       [] c = "i" -> 105 [] c = "x" -> 120 [] c = "A" -> 65
       [] c = "0" -> 48 [] c = "1" -> 49 [] c = "2" -> 50 [] c = "3" -> 51
       [] c = "4" -> 52 [] c = "5" -> 53 [] c = "6" -> 54 [] c = "7" -> 55
       [] c = "8" -> 56 [] c = "9" -> 57]

\* int(character) for a digit.
IntOf(character) == Ord[character] - 48

\* Keys of Board._board_state: "a1" .. "h8".
BoardKeys == {<<Files[i], Ranks[j]>> : i \in 1..8, j \in 1..8}

-----------------------------------------------------------------------------
(* Players and pieces *)

Colors == {"White", "Black"}

\* player_list[0] is White, player_list[1] is Black.
Other(color) == IF color = "White" THEN "Black" ELSE "White"

\* The order of types in each Player's initial piece_list.
StartTypes ==
  <<"Pawn", "Pawn", "Pawn", "Pawn", "Pawn", "Pawn", "Pawn", "Pawn",
    "Rook", "Rook", "Knight", "Knight", "Bishop", "Bishop", "Queen", "King">>

\* An order of files that puts the king on d and the queen on e.
StartFilesKingOnD ==
  <<"a", "b", "c", "d", "e", "f", "g", "h",
    "a", "h", "b", "g", "c", "f", "e", "d">>

\* The files of the initial piece_list, in order.
StartFiles ==
  <<"a", "b", "c", "d", "e", "f", "g", "h",
    "a", "h", "b", "g", "c", "f", "d", "e">>

Pieces == 1..32

get_owner(p) == IF p <= 16 THEN "White" ELSE "Black"

get_type(p) == StartTypes[IF p <= 16 THEN p ELSE p - 16]

\* The square a piece is created on.
StartPosition(p) ==
  LET i == IF p <= 16 THEN p ELSE p - 16
      rank == IF p <= 16 THEN (IF i <= 8 THEN "2" ELSE "1")
                         ELSE (IF i <= 8 THEN "7" ELSE "8")
  IN <<StartFiles[i], rank>>

-----------------------------------------------------------------------------
(* Piece.iterate_position_str *)

\* The character one before the given one, None before "a" and before "1".
PrevChr(character) ==
  CASE character = "a" -> NoneChr [] character = "b" -> "a"
    [] character = "c" -> "b" [] character = "d" -> "c"
    [] character = "e" -> "d" [] character = "f" -> "e"
    [] character = "g" -> "f" [] character = "h" -> "g"
    [] character = "1" -> NoneChr [] character = "2" -> "1"
    [] character = "3" -> "2" [] character = "4" -> "3"
    [] character = "5" -> "4" [] character = "6" -> "5"
    [] character = "7" -> "6" [] character = "8" -> "7"
    [] OTHER -> NoneChr

\* A successor that goes on past the last file and the last rank.
NextChrPastEdge(character) ==
  CASE character = "h" -> "i" [] character = "8" -> "9"
    [] character = "a" -> "b" [] character = "b" -> "c"
    [] character = "c" -> "d" [] character = "d" -> "e"
    [] character = "e" -> "f" [] character = "f" -> "g"
    [] character = "g" -> "h"
    [] character = "1" -> "2" [] character = "2" -> "3"
    [] character = "3" -> "4" [] character = "4" -> "5"
    [] character = "5" -> "6" [] character = "6" -> "7"
    [] character = "7" -> "8"
    [] OTHER -> NoneChr

\* The character one after the given one, None after "h" and after "8".
NextChr(character) ==
  CASE character = "a" -> "b" [] character = "b" -> "c"
    [] character = "c" -> "d" [] character = "d" -> "e"
    [] character = "e" -> "f" [] character = "f" -> "g"
    [] character = "g" -> "h" [] character = "h" -> NoneChr
    [] character = "1" -> "2" [] character = "2" -> "3"
    [] character = "3" -> "4" [] character = "4" -> "5"
    [] character = "5" -> "6" [] character = "6" -> "7"
    [] character = "7" -> "8" [] character = "8" -> NoneChr
    [] OTHER -> NoneChr

\* The character two before the given one (Knight, distance 2).
PrevChr2(character) ==
  CASE character = "a" -> NoneChr [] character = "b" -> NoneChr
    [] character = "c" -> "a" [] character = "d" -> "b"
    [] character = "e" -> "c" [] character = "f" -> "d"
    [] character = "g" -> "e" [] character = "h" -> "f"
    [] character = "1" -> NoneChr [] character = "2" -> NoneChr
    [] character = "3" -> "1" [] character = "4" -> "2"
    [] character = "5" -> "3" [] character = "6" -> "4"
    [] character = "7" -> "5" [] character = "8" -> "6"
    [] OTHER -> NoneChr

\* The character two after the given one (Knight, distance 2).
NextChr2(character) ==
  CASE character = "a" -> "c" [] character = "b" -> "d"
    [] character = "c" -> "e" [] character = "d" -> "f"
    [] character = "e" -> "g" [] character = "f" -> "h"
    [] character = "g" -> NoneChr [] character = "h" -> NoneChr
    [] character = "1" -> "3" [] character = "2" -> "4"
    [] character = "3" -> "5" [] character = "4" -> "6"
    [] character = "5" -> "7" [] character = "6" -> "8"
    [] character = "7" -> NoneChr [] character = "8" -> NoneChr
    [] OTHER -> NoneChr

\* A stepper that stays on the last file or rank instead of answering None
\* at the edge of the board.
iterate_position_str_clamped(type, character, direction, distance) ==
  IF type # "Knight" \/ distance = 1
  THEN IF direction = 0
       THEN IF PrevChr(character) = NoneChr THEN character
            ELSE PrevChr(character)
       ELSE IF NextChr(character) = NoneChr THEN character
            ELSE NextChr(character)
  ELSE IF direction = 0 THEN PrevChr2(character) ELSE NextChr2(character)

\* direction 0 steps down the alphabet or the digits, any other value up;
\* distance is 0 where the code passes no distance.
iterate_position_str(type, character, direction, distance) ==
  IF type # "Knight" \/ distance = 1
  THEN IF direction = 0 THEN PrevChr(character) ELSE NextChr(character)
  ELSE IF direction = 0 THEN PrevChr2(character) ELSE NextChr2(character)

-----------------------------------------------------------------------------
(* Piece.next_position *)

Diagonals ==
  {"diagonal up right", "diagonal up left",
   "diagonal down right", "diagonal down left"}

\* "diagonal" in direction
IsDiagonal(direction) == direction \in Diagonals

\* new_letter + new_num, or None when either part is None.
Compose(new_letter, new_num) ==
  IF new_letter = NoneChr \/ new_num = NoneChr
  THEN NonePos
  ELSE <<new_letter, new_num>>

\* One step from the current position string in any of the eight directions;
\* hdir and vdir are the iterate_position_str directions of the two parts.
StepStraightV(type, cur, vdir) ==
  Compose(cur[1], iterate_position_str(type, cur[2], vdir, 0))

StepStraightH(type, cur, hdir) ==
  Compose(iterate_position_str(type, cur[1], hdir, 0), cur[2])

StepDiagonal(type, cur, hdir, vdir) ==
  Compose(iterate_position_str(type, cur[1], hdir, 0),
          iterate_position_str(type, cur[2], vdir, 0))

\* A pawn that steps towards either end of the board, whatever its colour.
next_position_PawnEitherWay(color, cur, direction) ==
  CASE direction = "up" -> StepStraightV("Pawn", cur, 1)
    [] direction = "diagonal up right" -> StepDiagonal("Pawn", cur, 1, 1)
    [] direction = "diagonal up left" -> StepDiagonal("Pawn", cur, 0, 1)
    [] direction = "down" -> StepStraightV("Pawn", cur, 0)
    [] direction = "diagonal down right" -> StepDiagonal("Pawn", cur, 1, 0)
    [] direction = "diagonal down left" -> StepDiagonal("Pawn", cur, 0, 0)
    [] OTHER -> NonePos

next_position_Pawn(color, cur, direction) ==
  IF color = "White"
  THEN CASE direction = "up" -> StepStraightV("Pawn", cur, 1)
         [] direction = "diagonal up right" -> StepDiagonal("Pawn", cur, 1, 1)
         [] direction = "diagonal up left" -> StepDiagonal("Pawn", cur, 0, 1)
         [] OTHER -> NonePos
  ELSE CASE direction = "down" -> StepStraightV("Pawn", cur, 0)
         [] direction = "diagonal down right" -> StepDiagonal("Pawn", cur, 1, 0)
         [] direction = "diagonal down left" -> StepDiagonal("Pawn", cur, 0, 0)
         [] OTHER -> NonePos

next_position_Bishop(cur, direction) ==
  IF ~IsDiagonal(direction) THEN NonePos
  ELSE IF direction = "diagonal up right" THEN StepDiagonal("Bishop", cur, 1, 1)
  ELSE IF direction = "diagonal up left" THEN StepDiagonal("Bishop", cur, 0, 1)
  ELSE IF direction = "diagonal down right" THEN StepDiagonal("Bishop", cur, 1, 0)
  ELSE StepDiagonal("Bishop", cur, 0, 0)

\* A jump that goes two files with a rank delta of 2 as well.
KnightJumpWide(cur, dest, hdir, vdir) ==
  LET delta == IF vdir = 1 THEN IntOf(dest[2]) - IntOf(cur[2])
                           ELSE IntOf(cur[2]) - IntOf(dest[2])
  IN IF delta = 1
     THEN Compose(iterate_position_str("Knight", cur[1], hdir, 2),
                  iterate_position_str("Knight", cur[2], vdir, 1))
     ELSE IF delta = 2
     THEN Compose(iterate_position_str("Knight", cur[1], hdir, 2),
                  iterate_position_str("Knight", cur[2], vdir, 2))
     ELSE NonePos

\* The L-shaped jump: a rank delta of 1 goes two files, a rank delta of 2
\* goes one file; with any other rank delta both parts stay None.
KnightJump(cur, dest, hdir, vdir) ==
  LET delta == IF vdir = 1 THEN IntOf(dest[2]) - IntOf(cur[2])
                           ELSE IntOf(cur[2]) - IntOf(dest[2])
  IN IF delta = 1
     THEN Compose(iterate_position_str("Knight", cur[1], hdir, 2),
                  iterate_position_str("Knight", cur[2], vdir, 1))
     ELSE IF delta = 2
     THEN Compose(iterate_position_str("Knight", cur[1], hdir, 1),
                  iterate_position_str("Knight", cur[2], vdir, 2))
     ELSE NonePos

next_position_Knight(cur, direction, dest) ==
  IF ~IsDiagonal(direction) THEN NonePos
  ELSE IF direction = "diagonal up right" THEN KnightJump(cur, dest, 1, 1)
  ELSE IF direction = "diagonal up left" THEN KnightJump(cur, dest, 0, 1)
  ELSE IF direction = "diagonal down right" THEN KnightJump(cur, dest, 1, 0)
  ELSE KnightJump(cur, dest, 0, 0)

\* A rook that steps along the diagonals as well.
next_position_RookDiagonal(cur, direction) ==
  IF direction = "up" THEN StepStraightV("Rook", cur, 1)
  ELSE IF direction = "down" THEN StepStraightV("Rook", cur, 0)
  ELSE IF direction = "left" THEN StepStraightH("Rook", cur, 0)
  ELSE IF direction = "right" THEN StepStraightH("Rook", cur, 1)
  ELSE IF direction = "diagonal up right" THEN StepDiagonal("Rook", cur, 1, 1)
  ELSE IF direction = "diagonal up left" THEN StepDiagonal("Rook", cur, 0, 1)
  ELSE IF direction = "diagonal down right" THEN StepDiagonal("Rook", cur, 1, 0)
  ELSE StepDiagonal("Rook", cur, 0, 0)

next_position_Rook(cur, direction) ==
  IF IsDiagonal(direction) THEN NonePos
  ELSE IF direction = "up" THEN StepStraightV("Rook", cur, 1)
  ELSE IF direction = "down" THEN StepStraightV("Rook", cur, 0)
  ELSE IF direction = "left" THEN StepStraightH("Rook", cur, 0)
  ELSE StepStraightH("Rook", cur, 1)

next_position_Queen(type, cur, direction) ==
  IF direction = "up" THEN StepStraightV(type, cur, 1)
  ELSE IF direction = "down" THEN StepStraightV(type, cur, 0)
  ELSE IF direction = "left" THEN StepStraightH(type, cur, 0)
  ELSE IF direction = "right" THEN StepStraightH(type, cur, 1)
  ELSE IF direction = "diagonal up right" THEN StepDiagonal(type, cur, 1, 1)
  ELSE IF direction = "diagonal up left" THEN StepDiagonal(type, cur, 0, 1)
  ELSE IF direction = "diagonal down right" THEN StepDiagonal(type, cur, 1, 0)
  ELSE StepDiagonal(type, cur, 0, 0)

\* The next board position on the path of piece p, or None.
next_position(p, current_position, direction, destination_position) ==
  CASE get_type(p) = "Pawn" ->
         next_position_Pawn(get_owner(p), current_position, direction)
    [] get_type(p) = "Bishop" ->
         next_position_Bishop(current_position, direction)
    [] get_type(p) = "Knight" ->
         next_position_Knight(current_position, direction, destination_position)
    [] get_type(p) = "Rook" ->
         next_position_Rook(current_position, direction)
    [] OTHER ->
         next_position_Queen(get_type(p), current_position, direction)

-----------------------------------------------------------------------------
(* Piece.move *)

\* The direction of the move, "none" when start and destination coincide.
Direction(starting_position_string, destination_position_string) ==
  LET horizontal ==
        IF Ord[starting_position_string[1]] < Ord[destination_position_string[1]]
        THEN 1
        ELSE IF starting_position_string[1] = destination_position_string[1]
        THEN 0 ELSE -1
      vertical ==
        IF Ord[starting_position_string[2]] < Ord[destination_position_string[2]]
        THEN 1
        ELSE IF starting_position_string[2] = destination_position_string[2]
        THEN 0 ELSE -1
  IN IF horizontal = 0 /\ vertical = 0 THEN "none"
     ELSE IF horizontal = 0 /\ vertical = 1 THEN "up"
     ELSE IF horizontal = 0 /\ vertical = -1 THEN "down"
     ELSE IF horizontal = 1 /\ vertical = 0 THEN "right"
     ELSE IF horizontal = 1 /\ vertical = 1 THEN "diagonal up right"
     ELSE IF horizontal = 1 /\ vertical = -1 THEN "diagonal down right"
     ELSE IF horizontal = -1 /\ vertical = 0 THEN "left"
     ELSE IF horizontal = -1 /\ vertical = 1 THEN "diagonal up left"
     ELSE "diagonal down left"

\* Is the pawn on the rank it started the game on?
PawnInStartingPosition(p, starting_position_string) ==
  \/ starting_position_string[2] = "2" /\ get_owner(p) = "White"
  \/ starting_position_string[2] = "7" /\ get_owner(p) = "Black"

\* A diagonal pawn move from the starting rank that is accepted onto an empty
\* square as well.
PawnStartDiagonalOntoEmpty(p, start, direction, dest) ==
  \E n \in {next_position(p, start, direction, dest)} :
    IF n = NonePos THEN FALSE
    ELSE IF n # dest THEN FALSE
    ELSE IF board[n] = NoPiece THEN TRUE
    ELSE get_owner(p) # get_owner(board[n])

\* A diagonal pawn move from the starting rank: one step, onto an opposing piece.
PawnStartDiagonal(p, start, direction, dest) ==
  \E n \in {next_position(p, start, direction, dest)} :
    IF n = NonePos THEN FALSE
    ELSE IF board[n] = NoPiece THEN FALSE
    ELSE IF n # dest THEN FALSE
    ELSE IF get_owner(p) = get_owner(board[n]) THEN FALSE
    ELSE TRUE

\* A straight pawn move from the starting rank that jumps over the square
\* in front of the pawn.
PawnStartStraightJumps(p, start, direction, dest) ==
  \E n1 \in {next_position(p, start, direction, dest)} :
    IF n1 = NonePos THEN FALSE
    ELSE IF n1 = dest THEN board[n1] = NoPiece
    ELSE \E n2 \in {next_position(p, n1, direction, dest)} :
           IF n2 = NonePos THEN FALSE
           ELSE IF board[n2] # NoPiece THEN FALSE
           ELSE n2 = dest

\* A straight pawn move from the starting rank: the two passes of the loop.
PawnStartStraight(p, start, direction, dest) ==
  \E n1 \in {next_position(p, start, direction, dest)} :
    IF n1 = NonePos THEN FALSE
    ELSE IF board[n1] # NoPiece THEN FALSE
    ELSE IF n1 = dest THEN TRUE
    ELSE \E n2 \in {next_position(p, n1, direction, dest)} :
           IF n2 = NonePos THEN FALSE
           ELSE IF board[n2] # NoPiece THEN FALSE
           ELSE n2 = dest

\* A pawn move from any other rank that takes the opposing piece straight
\* ahead as well.
PawnLaterTakesAhead(p, start, direction, dest) ==
  \E n \in {next_position(p, start, direction, dest)} :
    IF n = NonePos THEN FALSE
    ELSE IF n # dest THEN FALSE
    ELSE IF IsDiagonal(direction)
    THEN board[n] # NoPiece /\ get_owner(p) # get_owner(board[n])
    ELSE board[n] = NoPiece \/ get_owner(p) # get_owner(board[n])

\* A pawn off its starting rank that moves as one on it, two squares ahead
\* included.
PawnLaterTwoSteps(p, start, direction, dest) ==
  IF IsDiagonal(direction)
  THEN PawnStartDiagonal(p, start, direction, dest)
  ELSE PawnStartStraight(p, start, direction, dest)

\* A pawn move from any other rank: one step, diagonal only onto an opposing
\* piece, straight only onto an empty square.
PawnLater(p, start, direction, dest) ==
  \E n \in {next_position(p, start, direction, dest)} :
    IF n = NonePos THEN FALSE
    ELSE IF IsDiagonal(direction)
    THEN IF board[n] = NoPiece THEN FALSE
         ELSE IF n # dest THEN FALSE
         ELSE IF get_owner(p) = get_owner(board[n]) THEN FALSE
         ELSE TRUE
    ELSE IF board[n] = NoPiece THEN n = dest ELSE FALSE

\* A single step that is accepted wherever the destination lies beyond it.
SingleStepAnyTarget(p, start, direction, dest) ==
  \E n \in {next_position(p, start, direction, dest)} :
    IF n = NonePos THEN FALSE
    ELSE IF board[n] # NoPiece /\ get_owner(p) = get_owner(board[n]) THEN FALSE
    ELSE TRUE

\* King and Knight: the single step must be the destination.
SingleStep(p, start, direction, dest) ==
  \E n \in {next_position(p, start, direction, dest)} :
    IF n = NonePos THEN FALSE
    ELSE IF n # dest THEN FALSE
    ELSE IF board[n] # NoPiece /\ get_owner(p) = get_owner(board[n]) THEN FALSE
    ELSE TRUE

\* A walk that passes over the occupied squares on its way.
RECURSIVE SlideOver(_, _, _, _)
SlideOver(p, current, direction, dest) ==
  \E n \in {next_position(p, current, direction, dest)} :
    IF n = NonePos THEN FALSE
    ELSE IF n # dest THEN SlideOver(p, n, direction, dest)
    ELSE board[n] = NoPiece \/ get_owner(p) # get_owner(board[n])

\* A slide that lands on any occupied destination, the mover's own pieces
\* included.
RECURSIVE SlideOntoOwn(_, _, _, _)
SlideOntoOwn(p, current, direction, dest) ==
  \E n \in {next_position(p, current, direction, dest)} :
    IF n = NonePos THEN FALSE
    ELSE IF board[n] = NoPiece
    THEN IF n # dest THEN SlideOntoOwn(p, n, direction, dest) ELSE TRUE
    ELSE n = dest

\* Bishop, Rook and Queen: walk the path until the destination, an occupied
\* square or the edge of the board.
RECURSIVE Slide(_, _, _, _)
Slide(p, current, direction, dest) ==
  \E n \in {next_position(p, current, direction, dest)} :
    IF n = NonePos THEN FALSE
    ELSE IF board[n] = NoPiece
    THEN IF n # dest THEN Slide(p, n, direction, dest) ELSE TRUE
    ELSE IF n # dest THEN FALSE
    ELSE IF get_owner(p) = get_owner(board[n]) THEN FALSE
    ELSE TRUE

\* The number of passes the while loop of Piece.move makes for a Bishop, Rook
\* or Queen, each pass one call of next_position: the loop goes on only from
\* an empty square that is not the destination.  The count stops at the
\* given number of passes.
RECURSIVE SlidePasses(_, _, _, _, _)
SlidePasses(passes, p, current, direction, dest) ==
  IF passes = 0 THEN 0
  ELSE CHOOSE c \in
         {IF n = NonePos THEN 1
          ELSE IF board[n] = NoPiece /\ n # dest
          THEN 1 + SlidePasses(passes - 1, p, n, direction, dest)
          ELSE 1 :
            n \in {next_position(p, current, direction, dest)}} : TRUE

\* The legal move tests of Piece.move.
LegalMove(p, start, direction, dest) ==
  IF get_type(p) = "Pawn"
  THEN IF PawnInStartingPosition(p, start)
       THEN IF IsDiagonal(direction)
            THEN PawnStartDiagonal(p, start, direction, dest)
            ELSE PawnStartStraight(p, start, direction, dest)
       ELSE PawnLater(p, start, direction, dest)
  ELSE IF get_type(p) = "King" \/ get_type(p) = "Knight"
  THEN SingleStep(p, start, direction, dest)
  ELSE Slide(p, start, direction, dest)

\* A list from which a captured piece is never removed.
set_piece_list_keeps(list, piece) == [raised |-> "None", list |-> list]

\* A list to which the captured piece is added once more.
set_piece_list_appends(list, piece) ==
  [raised |-> "None", list |-> Append(list, piece)]

\* A removal that empties the list.
set_piece_list_empties(list, piece) == [raised |-> "None", list |-> <<>>]

\* Player.set_piece_list: list.remove takes the first entry equal to the
\* piece out of the list and raises ValueError when there is none; the list
\* is then as it was.
set_piece_list(list, piece) ==
  IF \E i \in 1..Len(list) : list[i] = piece
  THEN [raised |-> "None",
        list |->
          [j \in 1..(Len(list) - 1) |->
             IF \A i \in 1..j : list[i] # piece THEN list[j] ELSE list[j + 1]]]
  ELSE [raised |-> "ValueError", list |-> list]

\* What Piece.move leaves behind when it returns False.
NotMoved ==
  [ok |-> FALSE, raised |-> "None", captured |-> NoPiece,
   board |-> board, position |-> position, piece_list |-> piece_list]

\* A move that leaves the moving piece on its starting square as well.
ExecuteMoveKeepsOrigin(p, start, dest) ==
  LET captured_piece == board[dest]
      board1 == [board EXCEPT ![dest] = p]
      position1 == [position EXCEPT ![p] = dest]
  IN IF captured_piece = NoPiece
     THEN [ok |-> TRUE, raised |-> "None", captured |-> NoPiece,
           board |-> board1, position |-> position1, piece_list |-> piece_list]
     ELSE [ok |-> TRUE, raised |-> "None", captured |-> captured_piece,
           board |-> board1,
           position |-> [position1 EXCEPT ![captured_piece] = NonePos],
           piece_list |->
             [piece_list EXCEPT ![get_owner(captured_piece)] =
                SelectSeq(@, LAMBDA x : x # captured_piece)]]

\* A move that leaves the captured piece its position.
ExecuteMoveCapturedStays(p, start, dest) ==
  LET captured_piece == board[dest]
      board1 == [[board EXCEPT ![start] = NoPiece] EXCEPT ![dest] = p]
      position1 == [position EXCEPT ![p] = dest]
  IN IF captured_piece = NoPiece
     THEN [ok |-> TRUE, raised |-> "None", captured |-> NoPiece,
           board |-> board1, position |-> position1, piece_list |-> piece_list]
     ELSE [ok |-> TRUE, raised |-> "None", captured |-> captured_piece,
           board |-> board1, position |-> position1,
           piece_list |->
             [piece_list EXCEPT ![get_owner(captured_piece)] =
                SelectSeq(@, LAMBDA x : x # captured_piece)]]

\* A move that hands the captured piece over to the list of the mover.
ExecuteMoveAdoptsCaptured(p, start, dest) ==
  LET captured_piece == board[dest]
      board1 == [[board EXCEPT ![start] = NoPiece] EXCEPT ![dest] = p]
      position1 == [position EXCEPT ![p] = dest]
  IN IF captured_piece = NoPiece
     THEN [ok |-> TRUE, raised |-> "None", captured |-> NoPiece,
           board |-> board1, position |-> position1, piece_list |-> piece_list]
     ELSE [ok |-> TRUE, raised |-> "None", captured |-> captured_piece,
           board |-> board1,
           position |-> [position1 EXCEPT ![captured_piece] = NonePos],
           piece_list |->
             [c \in Colors |->
                IF c = get_owner(captured_piece)
                THEN SelectSeq(piece_list[c], LAMBDA x : x # captured_piece)
                ELSE Append(piece_list[c], captured_piece)]]

\* The move itself: empty the starting square, put the piece on the
\* destination, detach a captured piece and remove it from its owner's
\* list.  The removal comes last: when it raises ValueError the squares and
\* the positions are changed already and the lists are as they were.
ExecuteMove(p, start, dest) ==
  LET captured_piece == board[dest]
      board1 == [[board EXCEPT ![start] = NoPiece] EXCEPT ![dest] = p]
      position1 == [position EXCEPT ![p] = dest]
  IN IF captured_piece = NoPiece
     THEN [ok |-> TRUE, raised |-> "None", captured |-> NoPiece,
           board |-> board1, position |-> position1, piece_list |-> piece_list]
     ELSE CHOOSE r \in
            {[ok |-> removed.raised = "None", raised |-> removed.raised,
              captured |-> captured_piece,
              board |-> board1,
              position |-> [position1 EXCEPT ![captured_piece] = NonePos],
              piece_list |->
                [piece_list EXCEPT ![get_owner(captured_piece)] =
                   removed.list]] :
               removed \in {set_piece_list(
                              piece_list[get_owner(captured_piece)],
                              captured_piece)}} : TRUE

\* A move that empties the starting square before it tests legality.
moveClearsFirst(p, dest) ==
  LET start == position[p]
      direction == Direction(start, dest)
  IN IF direction # "none" /\ LegalMove(p, start, direction, dest)
     THEN ExecuteMove(p, start, dest)
     ELSE [NotMoved EXCEPT !.board = [board EXCEPT ![start] = NoPiece]]

\* A move that answers True, instead of False, to a request that moves nothing.
moveNoneIsTrue(p, dest) ==
  LET start == position[p]
      direction == Direction(start, dest)
  IN IF direction = "none" THEN [NotMoved EXCEPT !.ok = TRUE]
     ELSE IF LegalMove(p, start, direction, dest)
     THEN ExecuteMove(p, start, dest)
     ELSE NotMoved

\* Piece.move: ok is FALSE for a returned False; captured is the returned
\* piece, NoPiece for a returned True; raised is the error that ended the
\* call, "None" when it returned.  The move starts from the position of the
\* piece; a piece whose position is None has no position string, which
\* raises AttributeError before anything is changed.
move(p, dest) ==
  IF position[p] = NonePos THEN [NotMoved EXCEPT !.raised = "AttributeError"]
  ELSE LET start == position[p]
           direction == Direction(start, dest)
       IN IF direction = "none" THEN NotMoved
          ELSE IF LegalMove(p, start, direction, dest)
          THEN ExecuteMove(p, start, dest)
          ELSE NotMoved

-----------------------------------------------------------------------------
(* ChessVar.make_move *)

\* A test that forgets the win of Black.
GameIsOverWhiteOnly == game_state = "WHITE_WON"

\* The test that the game is already over.
GameIsOver == game_state = "WHITE_WON" \/ game_state = "BLACK_WON"

\* One character test of the range check: reading past the end of the string
\* raises IndexError, a character outside lo..hi makes the move illegal.
RangeTest(string, i, lo, hi) ==
  IF Len(string) < i THEN "IndexError"
  ELSE IF Ord[string[i]] < Ord[lo] \/ Ord[string[i]] > Ord[hi]
  THEN "IllegalMoveError"
  ELSE "ok"

\* The range check of both strings, in the order the code evaluates it.
CoordinateCheck(string1, string2) ==
  LET t1 == RangeTest(string1, 1, "a", "h")
      t2 == RangeTest(string2, 1, "a", "h")
      t3 == RangeTest(string1, 2, "1", "8")
      t4 == RangeTest(string2, 2, "1", "8")
  IN IF t1 # "ok" THEN t1
     ELSE IF t2 # "ok" THEN t2
     ELSE IF t3 # "ok" THEN t3
     ELSE t4

\* Every capture ends the game.
last_piece_any(captured_type, captured_player_pieces) == TRUE

\* A test that never finds the captured type extinct.
last_piece_never(captured_type, captured_player_pieces) == FALSE

\* The loop over the captured piece's owner's list: is no piece of the
\* captured type left?
last_piece(captured_type, captured_player_pieces) ==
  \A i \in 1..Len(captured_player_pieces) :
    get_type(captured_player_pieces[i]) # captured_type

\* A win that is never recorded.
WinStateUnfinished(color) == "UNFINISHED"

\* A win recorded for the player who was not on turn.
WinStateOfLoser(color) == IF color = "White" THEN "BLACK_WON" ELSE "WHITE_WON"

\* The state a win of the player on turn sets.
WinState(color) == IF color = "White" THEN "WHITE_WON" ELSE "BLACK_WON"

\* A call that raises without having changed anything.
Raise(error) ==
  [result |-> error, board |-> board, position |-> position,
   piece_list |-> piece_list, turn |-> turn, game_state |-> game_state]

\* What make_move does with the value Piece.move returned; an error raised
\* in Piece.move leaves make_move at the call, the turn and the state of the
\* game as they were.
Finish(current_move) ==
  IF current_move.raised # "None"
  THEN [result |-> current_move.raised,
        board |-> current_move.board, position |-> current_move.position,
        piece_list |-> current_move.piece_list,
        turn |-> turn, game_state |-> game_state]
  ELSE IF current_move.captured # NoPiece
  THEN [result |-> "True",
        board |-> current_move.board, position |-> current_move.position,
        piece_list |-> current_move.piece_list,
        turn |-> Other(turn),
        game_state |->
          IF last_piece(get_type(current_move.captured),
                        current_move.piece_list[get_owner(current_move.captured)])
          THEN WinState(turn) ELSE game_state]
  ELSE IF current_move.ok
  THEN [result |-> "True",
        board |-> current_move.board, position |-> current_move.position,
        piece_list |-> current_move.piece_list,
        turn |-> Other(turn), game_state |-> game_state]
  ELSE [result |-> "IllegalMoveError",
        board |-> current_move.board, position |-> current_move.position,
        piece_list |-> current_move.piece_list,
        turn |-> turn, game_state |-> game_state]

\* The checks with the owner of the piece tested after the move was tried.
CheckedOwnerLast(string1, string2) ==
  LET range == CoordinateCheck(string1, string2)
  IN IF range # "ok" THEN Raise(range)
     ELSE IF string1 \notin BoardKeys THEN Raise("KeyError")
     ELSE IF board[string1] = NoPiece THEN Raise("IllegalMoveError")
     ELSE IF string2 \notin BoardKeys THEN Raise("KeyError")
     ELSE IF ~move(board[string1], string2).ok THEN Raise("IllegalMoveError")
     ELSE IF get_owner(board[string1]) # turn THEN Raise("MoveOutOfTurnError")
     ELSE CHOOSE r \in {Finish(current_move) :
                          current_move \in {move(board[string1], string2)}} : TRUE

\* The checks after the game-over test, in the order of the code.
Checked(string1, string2) ==
  LET range == CoordinateCheck(string1, string2)
  IN IF range # "ok" THEN Raise(range)
     ELSE IF string1 \notin BoardKeys THEN Raise("KeyError")
     ELSE IF board[string1] = NoPiece THEN Raise("IllegalMoveError")
     ELSE IF get_owner(board[string1]) # turn THEN Raise("MoveOutOfTurnError")
     ELSE IF string2 \notin BoardKeys THEN Raise("KeyError")
     ELSE CHOOSE r \in {Finish(current_move) :
                          current_move \in {move(board[string1], string2)}} : TRUE

\* The result of make_move(string1, string2) in the current state: what it
\* returns or raises, and the engine's data afterwards.  The errors of the
\* checks leave the data as they were; the ValueError of a capture of a
\* piece missing from its owner's list leaves the squares and the positions
\* changed and the turn with the mover.
make_move(string1, string2) ==
  IF GameIsOver THEN Raise("GameOverError") ELSE Checked(string1, string2)

\* A set_turn that gives the turn to White whatever the colour asked for.
set_turn_white(color) == "White"

\* ChessVar.set_turn: anything but "White" selects player_list[1].
set_turn(color) == IF color = "White" THEN "White" ELSE "Black"

-----------------------------------------------------------------------------
(* The state machine *)

\* The strings callers pass to make_move: the squares around the two kings
\* and queens, two strings off the board and three malformed ones.
Requests ==
  {<<"d", "1">>, <<"e", "1">>, <<"e", "2">>, <<"e", "3">>,
   <<"f", "2">>, <<"f", "3">>, <<"h", "4">>, <<"h", "5">>,
   <<"d", "8">>, <<"e", "8">>, <<"e", "7">>, <<"e", "6">>,
   <<"f", "7">>, <<"f", "6">>,
   <<"i", "1">>, <<"a", "9">>,
   <<>>, <<"a">>, <<"a", "1", "x">>}

\* None in GUI._selected_spaces.
NoWidget == 0

\* The labels setup_board_GUI creates, by the number in the name tkinter
\* gives them: ".!frame.!label", ".!frame.!label2", .. ".!frame.!label100".
Labels == 1..100

\* The digit of a number below 10 as a character.
DigitChr(d) == CHOOSE c \in {"0", "1", "2", "3", "4", "5", "6", "7", "8", "9"} : IntOf(c) = d

\* chr(code)
Chr(code) == CHOOSE c \in DOMAIN Ord : Ord[c] = code

\* What follows ".!frame.!label" in str(widget): nothing for the first
\* label, the decimal digits of its number for the others.
WidgetDigits(n) ==
  IF n = 1 THEN <<>>
  ELSE IF n < 10 THEN <<DigitChr(n)>>
  ELSE IF n < 100 THEN <<DigitChr(n \div 10), DigitChr(n % 10)>>
  ELSE <<DigitChr(n \div 100), DigitChr((n \div 10) % 10), DigitChr(n % 10)>>

\* The filter of mouse_click: a name of 16 characters whose 15th is not "9"
\* and whose 16th is neither "1" nor "0".
OnBoardWidget(n) ==
  /\ 14 + Len(WidgetDigits(n)) = 16
  /\ WidgetDigits(n)[1] # "9"
  /\ WidgetDigits(n)[2] # "1"
  /\ WidgetDigits(n)[2] # "0"

\* GUI.label_to_position_string: chr(int(label[1]) + 95) + label[0], on the
\* two digits of a label's name.
label_to_position_string(label) ==
  <<Chr(IntOf(label[2]) + 95), label[1]>>

\* GUI.index_converter: the two indices of a board position string in the
\* matrix of labels.
index_converter(board_position_string) ==
  <<Ord[board_position_string[1]] - 96, IntOf(board_position_string[2])>>

\* A numbering of the labels that runs j outside and i inside.
GridLabelRowFirst(j, i) == 10 * j + i + 1

\* The label stored in _grid_labels[j][i]: the loops of setup_board_GUI run
\* i outside and j inside, so it is the (10 * i + j + 1)-th label created.
GridLabel(j, i) == 10 * i + j + 1

\* Piece.get_type_abrv
get_type_abrv(p) ==
  CASE get_type(p) = "Pawn" -> "P"
    [] get_type(p) = "Knight" -> "Kn"
    [] get_type(p) = "Bishop" -> "B"
    [] get_type(p) = "Rook" -> "R"
    [] get_type(p) = "Queen" -> "Q"
    [] get_type(p) = "King" -> "K"

\* GUI.piece_display_string
piece_display_string(p) ==
  get_type_abrv(p) \o "(" \o (IF get_owner(p) = "White" THEN "W" ELSE "B") \o ")"

\* The matrix _temp_grid_labels of setup_board_GUI for a board: the ranks in
\* the first and the last column, the files in the first and the last row,
\* and the pieces of the board at the indices of their squares.
TempGridLabel(some_board, j, i) ==
  IF j = 0 \/ j = 9
  THEN IF i = 0 \/ i = 9 THEN "" ELSE DigitChr(i)
  ELSE IF i = 0 \/ i = 9 THEN Files[j]
  ELSE IF \E key \in BoardKeys :
            index_converter(key) = <<j, i>> /\ some_board[key] # NoPiece
  THEN piece_display_string(
         some_board[CHOOSE key \in BoardKeys : index_converter(key) = <<j, i>>])
  ELSE ""

\* GUI.setup_board_GUI: the text of every label after it, first setup or
\* reset.
setup_board_GUI(some_board) ==
  [n \in Labels |->
     CHOOSE t \in {TempGridLabel(some_board, j, i) :
                     j \in {j2 \in 0..9 : \E i2 \in 0..9 : GridLabel(j2, i2) = n},
                     i \in {i2 \in 0..9 : \E j2 \in 0..9 : GridLabel(j2, i2) = n}} : TRUE]

\* No file: nothing was saved, or the file dialog was closed without a name.
NoFile == <<>>

\* What save_game writes in a new game with the given colour on turn.
NewRecord(color) ==
  <<color,
    [i \in 1..16 |-> <<get_type(i), StartPosition(i)>>],
    [i \in 1..16 |-> <<get_type(i + 16), StartPosition(i + 16)>>]>>

\* A file an earlier run of the program wrote after White's e2-e3.
EarlierFile == [NewRecord("Black") EXCEPT ![2][5][2] = <<"e", "3">>]

\* What the file can hold when the program starts.
EarlierFiles == {NoFile, EarlierFile}

\* ChessVar.__init__ inside GUI.__init__: the board, the two players with
\* their pieces, White to move; the labels show the board, nothing is
\* selected.
InitGame ==
  /\ board = [k \in BoardKeys |->
                IF \E p \in Pieces : StartPosition(p) = k
                THEN CHOOSE p \in Pieces : StartPosition(p) = k
                ELSE NoPiece]
  /\ position = [p \in Pieces |-> StartPosition(p)]
  /\ piece_list = [c \in Colors |->
                     IF c = "White" THEN [i \in 1..16 |-> i]
                                    ELSE [i \in 1..16 |-> i + 16]]
  /\ turn = "White"
  /\ game_state = "UNFINISHED"
  /\ result = "None"
  /\ moves = 0
  /\ label_text = setup_board_GUI(board)
  /\ selected_spaces = <<NoWidget, NoWidget>>
  /\ root = "open"
  /\ dialog = "None"
  /\ saves = 0
  /\ loads = 0
  /\ load_raised = "None"

\* A new game where no file was saved before.
Init == InitGame /\ file = NoFile

\* A new window where an earlier run of the program may have left a file.
InitGUI == InitGame /\ file \in EarlierFiles

\* A file save_game never writes: White's queen stands on h5, and Black's
\* list ends after its first rook.  On it load_game deletes Black's eight
\* pawns from the list, places the rook and raises IndexError at the next
\* piece.
DeficientFile ==
  [NewRecord("White") EXCEPT ![2][15][2] = <<"h", "5">>,
                             ![3] = <<<<"Rook", <<"a", "8">>>>>>]

\* A new window where the file may be any file the dialog offers.
InitAnyFile == InitGame /\ file \in EarlierFiles \cup {DeficientFile}

\* One call of make_move: only a call that returns True counts as a move;
\* a call that raises leaves the data make_move had at that point.
MakeMove(string1, string2) ==
  \E r \in {make_move(string1, string2)} :
    /\ r.result = "True" => moves < MaxMoves
    /\ board' = r.board
    /\ position' = r.position
    /\ piece_list' = r.piece_list
    /\ turn' = r.turn
    /\ game_state' = r.game_state
    /\ result' = r.result
    /\ moves' = IF r.result = "True" THEN moves + 1 ELSE moves
    /\ UNCHANGED gui

\* One call of set_turn.
SetTurn(color) ==
  /\ turn' = set_turn(color)
  /\ result' = "None"
  /\ UNCHANGED <<board, position, piece_list, game_state, moves>>
  /\ UNCHANGED gui

Next == \E string1 \in Requests, string2 \in Requests : MakeMove(string1, string2)

Spec == Init /\ [][Next]_vars

\* The strings passed to make_move where set_turn is called as well: the
\* squares of the shortest wins and one string off the board.
AdminRequests ==
  {<<"d", "1">>, <<"e", "2">>, <<"e", "3">>, <<"h", "5">>,
   <<"e", "8">>, <<"e", "7">>, <<"e", "6">>, <<"f", "7">>, <<"f", "6">>,
   <<"a", "9">>}

NextAdmin ==
  \/ \E string1 \in AdminRequests, string2 \in AdminRequests :
       MakeMove(string1, string2)
  \/ \E color \in Colors : SetTurn(color)

SpecAdmin == Init /\ [][NextAdmin]_vars

\* A request as the pair of strings passed to make_move.
Req(f1, r1, f2, r2) == <<<<f1, r1>>, <<f2, r2>>>>

\* The calls of games in which the rooks, bishops and queens come out: pawn
\* moves that open their lines, their own moves and captures, and requests
\* that are refused while a line is still closed.
SliderRequests ==
  {Req("e", "2", "e", "3"), Req("d", "1", "g", "4"), Req("g", "4", "g", "5"),
   Req("f", "1", "c", "4"), Req("c", "4", "f", "7"),
   Req("a", "2", "a", "4"), Req("a", "1", "a", "3"), Req("a", "3", "d", "3"),
   Req("a", "7", "a", "5"), Req("a", "8", "a", "6"), Req("a", "6", "g", "6"),
   Req("d", "7", "d", "5"), Req("c", "8", "g", "4"), Req("h", "7", "h", "5")}

NextSliders == \E m \in SliderRequests : MakeMove(m[1], m[2])

SpecSliders == Init /\ [][NextSliders]_vars

\* The calls of games in which the knights and the kings come out, and the
\* Black queen comes down to the White king.
LeaperRequests ==
  {Req("b", "1", "c", "3"), Req("c", "3", "d", "5"), Req("d", "5", "c", "7"),
   Req("g", "1", "f", "3"), Req("g", "1", "e", "2"),
   Req("e", "2", "e", "4"), Req("e", "1", "e", "2"), Req("e", "1", "f", "2"),
   Req("g", "8", "f", "6"), Req("f", "6", "e", "4"),
   Req("e", "7", "e", "6"), Req("d", "8", "h", "4"), Req("h", "4", "f", "2"),
   Req("e", "8", "e", "7"), Req("e", "8", "e", "6")}

NextLeapers == \E m \in LeaperRequests : MakeMove(m[1], m[2])

SpecLeapers == Init /\ [][NextLeapers]_vars

\* The calls of games of pawns: advances of one and two squares, pawns that
\* meet, captures from the starting rank and off it, a knight and a bishop
\* that come to stand in front of pawns, and requests no pawn is allowed.
PawnRequests ==
  {Req("e", "2", "e", "4"), Req("e", "4", "e", "5"), Req("e", "4", "d", "5"),
   Req("b", "1", "c", "3"), Req("c", "2", "c", "4"), Req("b", "2", "a", "3"),
   Req("g", "2", "g", "3"), Req("e", "2", "e", "5"), Req("e", "2", "d", "3"),
   Req("d", "7", "d", "5"), Req("d", "5", "d", "4"), Req("d", "5", "e", "4"),
   Req("e", "7", "e", "6"), Req("e", "7", "e", "5"), Req("f", "8", "a", "3")}

NextPawns == \E m \in PawnRequests : MakeMove(m[1], m[2])

SpecPawns == Init /\ [][NextPawns]_vars

-----------------------------------------------------------------------------
(* GUI.save_game and GUI.load_game *)

\* The game ChessVar() constructs: its board, its positions and its lists.
NewBoard ==
  [k \in BoardKeys |->
     IF \E p \in Pieces : StartPosition(p) = k
     THEN CHOOSE p \in Pieces : StartPosition(p) = k
     ELSE NoPiece]

NewPosition == [p \in Pieces |-> StartPosition(p)]

NewPieceList ==
  [c \in Colors |->
     IF c = "White" THEN [i \in 1..16 |-> i] ELSE [i \in 1..16 |-> i + 16]]

\* The list of (type, position string) of the pieces of a list, in its order.
SavedPieces(list) ==
  [i \in 1..Len(list) |-> <<get_type(list[i]), position[list[i]]>>]

\* GUI.save_game in an UNFINISHED game: the record written to the file, which
\* json writes as nested arrays and reads back as nested lists of the same
\* strings: the turn, White's pieces, Black's pieces.
save_game ==
  <<turn, SavedPieces(piece_list["White"]), SavedPieces(piece_list["Black"])>>

\* del piece_list[index]
DeleteAt(list, index) ==
  [j \in 1..(Len(list) - 1) |-> IF j < index THEN list[j] ELSE list[j + 1]]

\* A loop that never drops a piece of the new game from the list.
RECURSIVE LoadPiecesKeepsAll(_, _, _, _)
LoadPiecesKeepsAll(g, saved, new_piece_list_index, saved_piece_index) ==
  IF g.result # "None" \/ new_piece_list_index > Len(g.list) THEN g
  ELSE IF saved_piece_index > Len(saved) THEN g
  ELSE IF get_type(g.list[new_piece_list_index]) = saved[saved_piece_index][1]
  THEN CHOOSE r \in
         {LoadPiecesKeepsAll(h, saved, new_piece_list_index + 1,
                             saved_piece_index + 1) :
            h \in {[g EXCEPT
                      !.position[g.list[new_piece_list_index]] =
                         saved[saved_piece_index][2],
                      !.board[saved[saved_piece_index][2]] =
                         g.list[new_piece_list_index],
                      !.updated = @ \cup {saved[saved_piece_index][2]}]}} : TRUE
  ELSE CHOOSE r \in
         {LoadPiecesKeepsAll(g, saved, new_piece_list_index + 1,
                             saved_piece_index)} : TRUE

\* One of the two while loops of load_game: the pieces of the new game's list
\* are taken in order; a piece of the type of the next saved entry is put on
\* the saved square, any other piece is deleted from the list.  Reading past
\* the end of the saved list raises IndexError, a saved string that is no key
\* of the board KeyError.
RECURSIVE LoadPieces(_, _, _, _)
LoadPieces(g, saved, new_piece_list_index, saved_piece_index) ==
  IF g.result # "None" \/ new_piece_list_index > Len(g.list) THEN g
  ELSE IF saved_piece_index > Len(saved) THEN [g EXCEPT !.result = "IndexError"]
  ELSE IF get_type(g.list[new_piece_list_index]) = saved[saved_piece_index][1]
  THEN IF saved[saved_piece_index][2] \notin BoardKeys
       THEN [g EXCEPT !.result = "KeyError"]
       ELSE CHOOSE r \in
              {LoadPieces(h, saved, new_piece_list_index + 1,
                          saved_piece_index + 1) :
                 h \in {[g EXCEPT
                           !.position[g.list[new_piece_list_index]] =
                              saved[saved_piece_index][2],
                           !.board[saved[saved_piece_index][2]] =
                              g.list[new_piece_list_index],
                           !.updated = @ \cup {saved[saved_piece_index][2]}]}} : TRUE
  ELSE CHOOSE r \in
         {LoadPieces(h, saved, new_piece_list_index, saved_piece_index) :
            h \in {[g EXCEPT !.list = DeleteAt(@, new_piece_list_index)]}} : TRUE

\* The last loop of load_game: the squares no piece was put on are emptied.
ClearOthers(new_board, updated_board_positions) ==
  [k \in BoardKeys |->
     IF k \in updated_board_positions THEN new_board[k] ELSE NoPiece]

\* GUI.load_game of a saved record: a new game, the saved turn, White's loop,
\* Black's loop, the emptying of the other squares.  The result is "None"
\* when the method returns and the error when it raises; the data are those
\* of the new game at that point.
load_game(saved_game) ==
  CHOOSE r \in
    UNION {
      {IF b.result # "None"
       THEN [result |-> b.result, board |-> b.board, position |-> b.position,
             piece_list |-> [c \in Colors |->
                               IF c = "White" THEN w.list
                               ELSE IF w.result = "None" THEN b.list
                               ELSE NewPieceList["Black"]],
             turn |-> set_turn(saved_game[1]), game_state |-> "UNFINISHED"]
       ELSE [result |-> "None",
             board |-> ClearOthers(b.board, b.updated),
             position |-> b.position,
             piece_list |-> [c \in Colors |->
                               IF c = "White" THEN w.list ELSE b.list],
             turn |-> set_turn(saved_game[1]), game_state |-> "UNFINISHED"] :
         b \in {LoadPieces([w EXCEPT !.list = NewPieceList["Black"]],
                           saved_game[3], 1, 1)}} :
      w \in {LoadPieces([result |-> "None", board |-> NewBoard,
                         position |-> NewPosition,
                         list |-> NewPieceList["White"], updated |-> {}],
                        saved_game[2], 1, 1)}} : TRUE

\* The menu entry Save Game in an UNFINISHED game: save_game writes the
\* record to the file chosen in the dialog.
SaveGame ==
  /\ root = "open"
  /\ dialog = "None"
  /\ game_state = "UNFINISHED"
  /\ saves < MaxSaves
  /\ file' = save_game
  /\ saves' = saves + 1
  /\ UNCHANGED <<engine, result, moves, label_text, selected_spaces, root,
                 dialog, loads, load_raised>>

\* The menu entry Load Game with the file chosen in the dialog, in whatever
\* state the game is: the game becomes the loaded one and load_game ends
\* with setup_board_GUI(True).  Without a file open() raises before anything
\* is changed.  When a loop of load_game raises, the game is the new one as
\* far as the loops came and the labels are not set up again: they go on
\* showing the game that was played before.  A run loads MaxLoads files.
LoadGame ==
  /\ root = "open"
  /\ dialog = "None"
  /\ file # NoFile
  /\ loads < MaxLoads
  /\ \E g \in {load_game(file)} :
       /\ board' = g.board
       /\ position' = g.position
       /\ piece_list' = g.piece_list
       /\ turn' = g.turn
       /\ game_state' = g.game_state
       /\ result' = g.result
       /\ moves' = moves
       /\ label_text' = IF g.result = "None" THEN setup_board_GUI(g.board)
                        ELSE label_text
       /\ load_raised' = g.result
       /\ loads' = loads + 1
       /\ UNCHANGED <<selected_spaces, root, dialog, file, saves>>

\* The calls of games in which pawns and a knight are captured, saved and
\* loaded at any point.
SavedRequests ==
  {Req("e", "2", "e", "4"), Req("d", "7", "d", "5"), Req("e", "4", "d", "5"),
   Req("d", "8", "d", "5"), Req("b", "1", "c", "3"), Req("d", "5", "a", "2"),
   Req("c", "3", "d", "5")}



\* One call of make_move in a game that lasts until a pawn has crossed the
\* board; as in MakeMove only a call that returns True counts as a move.
MakeLongMove(string1, string2) ==
  \E r \in {make_move(string1, string2)} :
    /\ r.result = "True" => moves < MaxPawnMoves
    /\ board' = r.board
    /\ position' = r.position
    /\ piece_list' = r.piece_list
    /\ turn' = r.turn
    /\ game_state' = r.game_state
    /\ result' = r.result
    /\ moves' = IF r.result = "True" THEN moves + 1 ELSE moves
    /\ UNCHANGED gui

\* The calls of games in which White's a-pawn runs to a8 or c8 and Black's
\* h-pawn to h1 or f1.
FarRankRequests ==
  {Req("a", "2", "a", "4"), Req("a", "4", "a", "5"), Req("a", "5", "a", "6"),
   Req("a", "6", "b", "7"), Req("b", "7", "a", "8"), Req("b", "7", "c", "8"),
   Req("c", "8", "d", "7"), Req("b", "2", "b", "3"),
   Req("h", "7", "h", "5"), Req("h", "5", "h", "4"), Req("h", "4", "h", "3"),
   Req("h", "3", "g", "2"), Req("g", "2", "h", "1"), Req("g", "2", "f", "1"),
   Req("f", "1", "e", "2"), Req("b", "8", "c", "6")}

NextFarRank == \E m \in FarRankRequests : MakeLongMove(m[1], m[2])

SpecFarRank == Init /\ [][NextFarRank]_vars

\* The calls of games in which a Black bishop comes to stand on a1 with the
\* long diagonal up to h8 empty: White's knight takes the rook of h8 and
\* leaves, the bishop takes the pawn of b2 and the rook of a1.
CornerRequests ==
  {Req("g", "1", "f", "3"), Req("f", "3", "e", "5"), Req("e", "5", "f", "7"),
   Req("f", "7", "h", "8"), Req("h", "8", "g", "6"), Req("b", "1", "c", "3"),
   Req("c", "3", "e", "4"), Req("h", "2", "h", "3"),
   Req("g", "7", "g", "6"), Req("f", "8", "g", "7"), Req("g", "7", "b", "2"),
   Req("b", "2", "a", "1"), Req("a", "1", "h", "8"), Req("a", "1", "e", "5"),
   Req("a", "1", "b", "8"), Req("e", "7", "e", "6")}

NextCorner == \E m \in CornerRequests : MakeLongMove(m[1], m[2])

SpecCorner == Init /\ [][NextCorner]_vars

-----------------------------------------------------------------------------
(* GUI.mouse_click and GUI.new_game *)

\* The answers to messagebox.askyesnocancel: Cancel, Yes, No.
Responses == {"None", "True", "False"}

\* GUI.new_game, also called where the Game Over dialog is answered Yes: a
\* new ChessVar and setup_board_GUI(True); the selection is left as it is.
new_game ==
  /\ board' = NewBoard
  /\ position' = NewPosition
  /\ piece_list' = NewPieceList
  /\ turn' = "White"
  /\ game_state' = "UNFINISHED"
  /\ label_text' = setup_board_GUI(NewBoard)
  /\ moves' = 0
  /\ load_raised' = "None"

\* The Game Over dialog of mouse_click and of save_game: Cancel does
\* nothing, Yes starts a new game, No destroys the window.
GameOverDialog(response) ==
  CASE response = "None" ->
         UNCHANGED <<engine, label_text, moves, root, load_raised>>
    [] response = "True" -> new_game /\ UNCHANGED root
    [] OTHER -> /\ root' = "destroyed"
                /\ UNCHANGED <<engine, label_text, moves, load_raised>>

\* The menu entry New Game.
NewGame ==
  /\ root = "open"
  /\ dialog = "None"
  /\ new_game
  /\ result' = "None"
  /\ UNCHANGED <<selected_spaces, root, dialog, file, saves, loads>>

\* The menu entry Save Game in a game that is over: save_game writes no file
\* and waits in the Game Over dialog.
SaveGameOver ==
  /\ root = "open"
  /\ dialog = "None"
  /\ game_state # "UNFINISHED"
  /\ dialog' = "Game Over (save_game)"
  /\ UNCHANGED <<engine, result, moves, label_text, selected_spaces, root,
                 file, saves, loads, load_raised>>

\* The window is destroyed, in whatever state the game is: by the menu entry
\* Close, or through the window manager, which is possible while a dialog
\* waits as well; the dialog goes with the window and the callback that
\* waited in it ends with the error of the message box.
Close ==
  /\ root = "open"
  /\ root' = "destroyed"
  /\ dialog' = "None"
  /\ UNCHANGED <<engine, result, moves, label_text, selected_spaces, file,
                 saves, loads, load_raised>>

\* The message box mouse_click opens for what make_move raised.
DialogOf(raised) ==
  CASE raised = "GameOverError" -> "Game Over"
    [] raised = "MoveOutOfTurnError" -> "Move Out of Turn"
    [] raised = "IllegalMoveError" -> "Illegal Move"
    [] OTHER -> "None"

\* GUI.mouse_click on the label of number n.  A click outside the squares
\* does nothing; the first click on a square selects it; the second records
\* the clicked label and calls make_move from the selected square to the
\* clicked one.  When the move is accepted the text of the first label moves
\* to the second and the selection is cleared; when make_move raises one of
\* its three errors mouse_click waits in the message box of the error, both
\* labels selected; any other error ends the callback where make_move was
\* called: the engine's data are those make_move left, the texts are as they
\* were, both labels stay selected and no box is up.
Click(n) ==
  /\ root = "open"
  /\ dialog = "None"
  /\ UNCHANGED <<file, saves, loads, load_raised>>
  /\ IF ~OnBoardWidget(n)
     THEN UNCHANGED vars
     ELSE IF selected_spaces[1] = NoWidget
     THEN /\ selected_spaces' = [selected_spaces EXCEPT ![1] = n]
          /\ UNCHANGED <<engine, result, moves, label_text, root, dialog>>
     ELSE \E r \in {make_move(
                      label_to_position_string(WidgetDigits(selected_spaces[1])),
                      label_to_position_string(WidgetDigits(n)))} :
            /\ r.result = "True" => moves < MaxMoves
            /\ result' = r.result
            /\ IF r.result = "True"
               THEN /\ board' = r.board
                    /\ position' = r.position
                    /\ piece_list' = r.piece_list
                    /\ turn' = r.turn
                    /\ game_state' = r.game_state
                    /\ moves' = moves + 1
                    /\ label_text' =
                         [label_text EXCEPT
                            ![selected_spaces[1]] = "",
                            ![n] = label_text[selected_spaces[1]]]
                    /\ selected_spaces' = <<NoWidget, NoWidget>>
                    /\ UNCHANGED <<root, dialog>>
               ELSE /\ board' = r.board
                    /\ position' = r.position
                    /\ piece_list' = r.piece_list
                    /\ turn' = r.turn
                    /\ game_state' = r.game_state
                    /\ selected_spaces' = [selected_spaces EXCEPT ![2] = n]
                    /\ dialog' = DialogOf(r.result)
                    /\ UNCHANGED <<label_text, moves, root>>

\* The answers a dialog can get: Yes, No and Cancel in the Game Over dialog,
\* OK and Cancel in the others.
Answers ==
  IF dialog \in {"Game Over", "Game Over (save_game)"} THEN Responses
  ELSE {"True", "False"}

\* The dialog that is up is answered and the callback that waited in it
\* goes on: after the Game Over dialog with a new game (Yes), the
\* destruction of the window (No) or nothing (Cancel), after the other two
\* with nothing; mouse_click then clears the selection, save_game returns.
AnswerDialog(response) ==
  /\ root = "open"
  /\ dialog # "None"
  /\ dialog' = "None"
  /\ IF dialog \in {"Game Over", "Game Over (save_game)"}
     THEN GameOverDialog(response)
     ELSE UNCHANGED <<engine, label_text, moves, root, load_raised>>
  /\ selected_spaces' = IF dialog = "Game Over (save_game)"
                        THEN selected_spaces
                        ELSE <<NoWidget, NoWidget>>
  /\ UNCHANGED <<result, file, saves, loads>>

\* The label of the square of a position string: setup_board_GUI shows the
\* piece of the square in _grid_labels at the indices of index_converter.
LabelAt(board_position_string) ==
  GridLabel(index_converter(board_position_string)[1],
            index_converter(board_position_string)[2])

\* The two clicks of a request: the first on the label of its first square
\* while nothing is selected, the second on the label of its second square
\* while the first is selected.  After a click that ended in an error
\* mouse_click does not handle the first square is still selected, and the
\* next click on a square is a second click from it.
ClickRequest(m) ==
  \/ selected_spaces[1] = NoWidget /\ Click(LabelAt(m[1]))
  \/ selected_spaces[1] = LabelAt(m[1]) /\ Click(LabelAt(m[2]))

\* The requests made by clicks: the shortest win of White, in which Black
\* moves the f-pawn and then the king to f7.  Asked out of turn, along a
\* blocked path or from an empty square the same requests are refused.
ClickedRequests ==
  {Req("e", "2", "e", "3"), Req("f", "7", "f", "6"), Req("d", "1", "h", "5"),
   Req("e", "8", "f", "7"), Req("h", "5", "f", "7")}

\* The labels clicked that are no squares: one of the frame around the
\* board, the first label and the last.
ClickedLabels == {GridLabel(0, 2), GridLabel(0, 0), GridLabel(9, 9)}

NextGUI ==
  \/ \E m \in ClickedRequests : ClickRequest(m)
  \/ \E n \in ClickedLabels : Click(n)
  \/ \E response \in Answers : AnswerDialog(response)
  \/ NewGame
  \/ SaveGame
  \/ LoadGame
  \/ SaveGameOver
  \/ Close

\* Games played by clicks in which pawns and a queen are captured, saved
\* and loaded at any point.
NextSaved ==
  \/ \E m \in SavedRequests : ClickRequest(m)
  \/ \E response \in Answers : AnswerDialog(response)
  \/ SaveGame
  \/ LoadGame

SpecSaved == InitGUI /\ [][NextSaved]_vars

SpecGUI == InitAnyFile /\ [][NextGUI]_vars

-----------------------------------------------------------------------------
(* Vocabulary of the properties *)
Rejections == {"GameOverError", "MoveOutOfTurnError", "IllegalMoveError"}

Terminal == {"WHITE_WON", "BLACK_WON"}

\* The pieces in a player's list.
Roster(list) == {list[i] : i \in 1..Len(list)}

\* The step is an accepted move.
Accepted == moves' = moves + 1

\* The pieces an accepted move removed from the lists.
Removed ==
  (Roster(piece_list["White"]) \cup Roster(piece_list["Black"]))
    \ (Roster(piece_list'["White"]) \cup Roster(piece_list'["Black"]))

\* The requests of two characters, on the board or off it.
TwoCharRequests == {s \in Requests : Len(s) = 2}

-----------------------------------------------------------------------------
(* Properties *)

\* C1: a call of make_move that raises GameOverError, MoveOutOfTurnError or
\* IllegalMoveError leaves the board, every piece's position, both piece
\* lists, the turn and the game state as they were.
C1_RejectionChangesNothing ==
  [][(result' \in Rejections) => UNCHANGED engine]_vars

\* C1 witness: an illegal move was rejected in the middle of a game.
C1_Witness ==
  /\ result = "IllegalMoveError"
  /\ game_state = "UNFINISHED"
  /\ moves = 2

\* C2 (as claimed): the turn passes to the other player with every accepted
\* move that leaves the game UNFINISHED, and changes at no other time.
C2_TurnChangesOnlyOnOrdinaryMove ==
  [][(turn' # turn) <=> (Accepted /\ game_state' = "UNFINISHED")]_vars

\* C3: an accepted capture sets the mover's win state exactly when the
\* captured piece's owner has no piece of the captured type left in its list,
\* and otherwise leaves the state UNFINISHED; an accepted move without capture
\* leaves the state as it was.
C3_WinExactlyOnTypeElimination ==
  [][Accepted =>
       IF Removed = {}
       THEN game_state' = game_state
       ELSE \A c \in Removed :
              game_state' =
                IF \E q \in Roster(piece_list'[get_owner(c)]) :
                     get_type(q) = get_type(c)
                THEN "UNFINISHED"
                ELSE IF turn = "White" THEN "WHITE_WON" ELSE "BLACK_WON"]_vars

\* C3 witness: a capture that did not end the game (White took a pawn) was
\* followed by one that did (Black took the only queen).
C3_Witness ==
  /\ game_state = "BLACK_WON"
  /\ Len(piece_list["Black"]) = 15
  /\ Len(piece_list["White"]) = 15

\* C4: from a won game every call of make_move, whatever its two arguments,
\* raises GameOverError, and the game state stays what it is.
C4_TerminalIsAbsorbing ==
  [][(game_state \in Terminal) =>
       (result' = "GameOverError" /\ game_state' = game_state)]_vars

\* C4 witness: a call was made after White had won.
C4_Witness ==
  /\ game_state = "WHITE_WON"
  /\ result = "GameOverError"

\* C5 (as claimed): the move that wins the game does not pass the turn.
C5_WinningMoveKeepsTurn ==
  [][(game_state = "UNFINISHED" /\ game_state' \in Terminal) => (turn' = turn)]_vars

\* C6 (as claimed): once the game is won, neither make_move nor set_turn
\* changes the board, the turn or the game state.
C6_FrozenAfterWin ==
  [][(game_state \in Terminal) => UNCHANGED <<board, turn, game_state>>]_vars

\* C7: the occupant of a square has that square as its position, and a piece
\* with a position is the occupant of that square.
C7_BidirectionalOccupancy ==
  /\ \A k \in BoardKeys : board[k] # NoPiece => position[board[k]] = k
  /\ \A p \in Pieces :
       position[p] # NonePos =>
         position[p] \in BoardKeys /\ board[position[p]] = p

\* C7 witness: a Black piece was captured and the game goes on.
C7_Witness ==
  /\ game_state = "UNFINISHED"
  /\ Len(piece_list["Black"]) = 15
  /\ result = "True"

\* C8: the pieces of the two lists together are exactly the occupants of the
\* occupied squares.
C8_RosterIsBoard ==
  Roster(piece_list["White"]) \cup Roster(piece_list["Black"])
    = {board[k] : k \in BoardKeys} \ {NoPiece}

\* C8 witness: a White piece was captured.
C8_Witness ==
  /\ Len(piece_list["White"]) = 15
  /\ moves >= 1

\* C9: the checks of make_move come in a fixed order and the first that
\* fails is reported: game over, then the range of the two coordinates, then
\* an empty origin, then the owner of the piece, then the move of the piece.
\* So a piece of the player not on turn gives MoveOutOfTurnError for every
\* destination on the board, and IllegalMoveError for one off the board.
C9_CheckOrder ==
  \A string1 \in TwoCharRequests, string2 \in BoardKeys \cup TwoCharRequests :
    LET r == make_move(string1, string2).result
    IN IF game_state # "UNFINISHED" THEN r = "GameOverError"
       ELSE IF string1 \notin BoardKeys \/ string2 \notin BoardKeys
       THEN r = "IllegalMoveError"
       ELSE IF board[string1] = NoPiece THEN r = "IllegalMoveError"
       ELSE IF get_owner(board[string1]) # turn THEN r = "MoveOutOfTurnError"
       ELSE r \in {"True", "IllegalMoveError"}

\* C9 witness: a move out of turn was refused in the middle of a game.
C9_Witness ==
  /\ result = "MoveOutOfTurnError"
  /\ game_state = "UNFINISHED"
  /\ moves >= 1

\* What make_move(string1, string2) leaves unchanged when it changes nothing.
ChangesNothing(r) ==
  /\ r.board = board
  /\ r.position = position
  /\ r.piece_list = piece_list
  /\ r.turn = turn
  /\ r.game_state = game_state

\* C10 (as claimed): in an UNFINISHED game make_move(c, c) raises
\* IllegalMoveError for every square c, empty or occupied, and changes nothing.
C10_NoDisplacementIsIllegalMove ==
  game_state = "UNFINISHED" =>
    \A c \in BoardKeys :
      /\ make_move(c, c).result = "IllegalMoveError"
      /\ ChangesNothing(make_move(c, c))

\* C10 (amended): in an UNFINISHED game make_move(c, c) is refused for every
\* square c and changes nothing: with MoveOutOfTurnError when c holds a piece
\* of the player not on turn, with IllegalMoveError when c is empty or holds a
\* piece of the player on turn.
C10_NoDisplacementIsRefused ==
  game_state = "UNFINISHED" =>
    \A c \in BoardKeys :
      /\ make_move(c, c).result =
           IF board[c] # NoPiece /\ get_owner(board[c]) # turn
           THEN "MoveOutOfTurnError"
           ELSE "IllegalMoveError"
      /\ ChangesNothing(make_move(c, c))

\* C10 witness: Black is on turn in a running game after a capture, and a1
\* holds a White piece, e8 a Black one and e2 none.
C10_Witness ==
  /\ game_state = "UNFINISHED"
  /\ turn = "Black"
  /\ Len(piece_list["Black"]) = 15
  /\ board[<<"a", "1">>] # NoPiece
  /\ board[<<"e", "8">>] # NoPiece
  /\ board[<<"e", "2">>] = NoPiece
  /\ make_move(<<"a", "1">>, <<"a", "1">>).result = "MoveOutOfTurnError"
  /\ make_move(<<"e", "8">>, <<"e", "8">>).result = "IllegalMoveError"
  /\ make_move(<<"e", "2">>, <<"e", "2">>).result = "IllegalMoveError"

\* Strings that are not a coordinate: a file or a rank out of range, an
\* upper-case file, the empty string, one character, three characters.
NotCoordinates ==
  {<<"i", "1">>, <<"a", "9">>, <<"a", "0">>, <<"A", "1">>,
   <<>>, <<"a">>, <<"a", "1", "x">>}

\* C11 (as claimed): in an UNFINISHED game make_move with an argument that is
\* not a coordinate raises IllegalMoveError and changes nothing, whatever the
\* other argument is.
C11_MalformedIsIllegalMove ==
  game_state = "UNFINISHED" =>
    \A s \in NotCoordinates, c \in BoardKeys \cup NotCoordinates :
      /\ make_move(s, c).result = "IllegalMoveError"
      /\ ChangesNothing(make_move(s, c))
      /\ make_move(c, s).result = "IllegalMoveError"
      /\ ChangesNothing(make_move(c, s))

\* C12 (as claimed): what an accepted capture returns differs from what an
\* accepted move without capture returns, which is True.
C12_CaptureResultIsDistinct ==
  [][Accepted => ((result' = "True") <=> (Removed = {}))]_vars

-----------------------------------------------------------------------------
(* Geometry of the board, as the rules of the pieces are stated *)

\* The number of the file and of the rank of a square, 1..8.
FileOf(k) == Ord[k[1]] - 96
RankOf(k) == Ord[k[2]] - 48

Abs(n) == IF n < 0 THEN -n ELSE n
Sign(n) == IF n < 0 THEN -1 ELSE IF n = 0 THEN 0 ELSE 1

\* The file delta and the rank delta of a request from s to d.
FileDelta(s, d) == FileOf(d) - FileOf(s)
RankDelta(s, d) == RankOf(d) - RankOf(s)

\* The number of steps from s to d along a line.
Steps(s, d) ==
  IF Abs(FileDelta(s, d)) > Abs(RankDelta(s, d))
  THEN Abs(FileDelta(s, d)) ELSE Abs(RankDelta(s, d))

\* d is on the file or the rank of s; d is on a diagonal of s.
Orthogonal(s, d) == (FileDelta(s, d) = 0) # (RankDelta(s, d) = 0)
OnDiagonal(s, d) ==
  FileDelta(s, d) # 0 /\ Abs(FileDelta(s, d)) = Abs(RankDelta(s, d))

\* The squares strictly between s and d on their common line.
Between(s, d) ==
  {<<Files[FileOf(s) + i * Sign(FileDelta(s, d))],
     Ranks[RankOf(s) + i * Sign(RankDelta(s, d))]>> : i \in 1..(Steps(s, d) - 1)}

\* d is empty or holds a piece of the other player than p's owner.
Landable(p, d) == board[d] = NoPiece \/ get_owner(board[d]) # get_owner(p)

\* The pieces of the player on turn of the given types.
OnTurn(types) == {p \in Roster(piece_list[turn]) : get_type(p) \in types}

\* The line from s to d is one a piece of the type moves along.
AllowedLine(type, s, d) ==
  CASE type = "Rook" -> Orthogonal(s, d)
    [] type = "Bishop" -> OnDiagonal(s, d)
    [] OTHER -> Orthogonal(s, d) \/ OnDiagonal(s, d)

\* C13: a request for a Rook, Bishop or Queen of the player on turn is
\* accepted exactly when the destination is on a straight line the piece moves
\* along, every square strictly between is empty and the destination is empty
\* or holds an opposing piece; so a request with both deltas non-zero and of
\* different size is refused.  An accepted move puts the piece on the
\* requested destination, a refused one raises IllegalMoveError.
C13_SlidingPath ==
  game_state = "UNFINISHED" =>
    \A p \in OnTurn({"Rook", "Bishop", "Queen"}), d \in BoardKeys :
      \E r \in {make_move(position[p], d)} :
        /\ (r.result = "True") <=>
             /\ AllowedLine(get_type(p), position[p], d)
             /\ \A k \in Between(position[p], d) : board[k] = NoPiece
             /\ Landable(p, d)
        /\ (r.result = "True") => (r.board[d] = p /\ r.position[p] = d)
        /\ (r.result # "True") => (r.result = "IllegalMoveError")

\* C13 witness: the White bishop on c4 may take the pawn on f7 over the empty
\* d5 and e6 but not go on to g8 behind it, nor to e5 off its lines, and the
\* White rook on a1 may go up its file to a3 but not onto its own pawn on a4
\* nor over it.
C13_Witness ==
  /\ game_state = "UNFINISHED" /\ turn = "White"
  /\ board[<<"c", "4">>] = 14 /\ board[<<"a", "1">>] = 9
  /\ make_move(<<"c", "4">>, <<"f", "7">>).result = "True"
  /\ make_move(<<"c", "4">>, <<"g", "8">>).result = "IllegalMoveError"
  /\ make_move(<<"c", "4">>, <<"e", "5">>).result = "IllegalMoveError"
  /\ make_move(<<"a", "1">>, <<"a", "3">>).result = "True"
  /\ make_move(<<"a", "1">>, <<"a", "4">>).result = "IllegalMoveError"
  /\ make_move(<<"a", "1">>, <<"a", "5">>).result = "IllegalMoveError"

\* C14: every request for a Rook of the player on turn in which file and rank
\* both change is refused, and every request for a Bishop in which only one
\* of the two changes is refused, whatever stands on the board; a Queen is
\* accepted along each of the eight directions, as far as the way is free.
C14_DirectionRestriction ==
  game_state = "UNFINISHED" =>
    /\ \A p \in OnTurn({"Rook"}), d \in BoardKeys :
         (FileDelta(position[p], d) # 0 /\ RankDelta(position[p], d) # 0) =>
           make_move(position[p], d).result = "IllegalMoveError"
    /\ \A p \in OnTurn({"Bishop"}), d \in BoardKeys :
         Orthogonal(position[p], d) =>
           make_move(position[p], d).result = "IllegalMoveError"
    /\ \A p \in OnTurn({"Queen"}), d \in BoardKeys :
         ( /\ Orthogonal(position[p], d) \/ OnDiagonal(position[p], d)
           /\ \A k \in Between(position[p], d) : board[k] = NoPiece
           /\ Landable(p, d) ) =>
           make_move(position[p], d).result = "True"

\* The squares next to s, one for each of the eight directions where the
\* board does not end.
Neighbours(s) ==
  {d \in BoardKeys : Steps(s, d) = 1}

\* C14 witness: the White queen stands on g4 with a free square in each of the
\* eight directions and is accepted on all of them, the White bishop on c4 is
\* refused the empty c5 and b4 on its file and rank, and the rook on a1 is
\* refused the empty c3.
C14_Witness ==
  /\ game_state = "UNFINISHED" /\ turn = "White"
  /\ board[<<"g", "4">>] = 15 /\ board[<<"c", "4">>] = 14
  /\ Cardinality(Neighbours(<<"g", "4">>)) = 8
  /\ \A d \in Neighbours(<<"g", "4">>) :
       make_move(<<"g", "4">>, d).result = "True"
  /\ board[<<"c", "5">>] = NoPiece /\ board[<<"b", "4">>] = NoPiece
  /\ make_move(<<"c", "4">>, <<"c", "5">>).result = "IllegalMoveError"
  /\ make_move(<<"c", "4">>, <<"b", "4">>).result = "IllegalMoveError"
  /\ board[<<"c", "3">>] = NoPiece
  /\ make_move(<<"a", "1">>, <<"c", "3">>).result = "IllegalMoveError"

\* C15: a request for the King of the player on turn is accepted exactly when
\* the destination is one square away, in any of the eight directions, and is
\* empty or holds an opposing piece; a request of two or more squares is
\* refused also over empty squares.  A refused request raises IllegalMoveError.
C15_KingOneSquare ==
  game_state = "UNFINISHED" =>
    \A p \in OnTurn({"King"}), d \in BoardKeys :
      \E r \in {make_move(position[p], d)} :
        /\ (r.result = "True") <=> (Steps(position[p], d) = 1 /\ Landable(p, d))
        /\ (r.result # "True") => (r.result = "IllegalMoveError")

\* C15 witness: the White king on e1 may go to the empty e2 and take the Black
\* queen on f2, but not go to e3 over the empty e2, nor onto its own queen.
C15_Witness ==
  /\ game_state = "UNFINISHED" /\ turn = "White"
  /\ board[<<"e", "1">>] = 16 /\ board[<<"f", "2">>] = 31
  /\ board[<<"e", "2">>] = NoPiece /\ board[<<"e", "3">>] = NoPiece
  /\ make_move(<<"e", "1">>, <<"e", "2">>).result = "True"
  /\ make_move(<<"e", "1">>, <<"f", "2">>).result = "True"
  /\ make_move(<<"e", "1">>, <<"e", "3">>).result = "IllegalMoveError"
  /\ make_move(<<"e", "1">>, <<"d", "1">>).result = "IllegalMoveError"

\* C16: a request for a Knight of the player on turn is accepted exactly when
\* the file delta and the rank delta are 1 and 2, or 2 and 1, and the
\* destination is empty or holds an opposing piece, whatever stands on the
\* other squares; onto an own piece it is refused, onto an opposing piece it
\* is a capture.  A refused request raises IllegalMoveError.
C16_KnightJumps ==
  game_state = "UNFINISHED" =>
    \A p \in OnTurn({"Knight"}), d \in BoardKeys :
      \E r \in {make_move(position[p], d)} :
        /\ (r.result = "True") <=>
             /\ {Abs(FileDelta(position[p], d)), Abs(RankDelta(position[p], d))}
                  = {1, 2}
             /\ Landable(p, d)
        /\ (r.result = "True" /\ board[d] # NoPiece) =>
             r.position[board[d]] = NonePos
        /\ (r.result # "True") => (r.result = "IllegalMoveError")

\* C16 witness: the White knight on d5 may take the pawn on c7, and the White
\* knight on g1, with pieces on every square around it, may jump to the empty
\* f3 but not onto its own pawn on e2.
C16_Witness ==
  /\ game_state = "UNFINISHED" /\ turn = "White"
  /\ board[<<"d", "5">>] = 11 /\ board[<<"g", "1">>] = 12
  /\ board[<<"c", "7">>] = 19 /\ board[<<"e", "2">>] = 5
  /\ \A k \in Neighbours(<<"g", "1">>) : board[k] # NoPiece
  /\ make_move(<<"d", "5">>, <<"c", "7">>).result = "True"
  /\ make_move(<<"g", "1">>, <<"f", "3">>).result = "True"
  /\ make_move(<<"g", "1">>, <<"e", "2">>).result = "IllegalMoveError"

\* The pawn stands on the rank its owner's pawns start on.
OnStartRank(p) ==
  RankOf(position[p]) = IF get_owner(p) = "White" THEN 2 ELSE 7

\* The number of ranks the request takes the pawn forward: up the board for
\* White, down for Black; negative backward.
Forward(p, d) ==
  IF get_owner(p) = "White"
  THEN RankDelta(position[p], d) ELSE -RankDelta(position[p], d)

\* C17: a straight forward request for a pawn of the player on turn that
\* stands on its starting rank is accepted exactly when it advances one or two
\* squares and the destination, and for two squares the square between, are
\* empty; an advance of three or more squares is refused.  The accepted move
\* passes the turn, the refused one raises IllegalMoveError.
C17_PawnFromStartingRank ==
  game_state = "UNFINISHED" =>
    \A p \in OnTurn({"Pawn"}), d \in BoardKeys :
      (OnStartRank(p) /\ FileDelta(position[p], d) = 0 /\ Forward(p, d) >= 1) =>
        \E r \in {make_move(position[p], d)} :
          /\ (r.result = "True") <=>
               /\ Forward(p, d) <= 2
               /\ \A k \in Between(position[p], d) \cup {d} : board[k] = NoPiece
          /\ (r.result = "True") => (r.turn = Other(turn) /\ r.board[d] = p)
          /\ (r.result # "True") => (r.result = "IllegalMoveError")

\* C17 witness: White is on turn with the pawn on g2 free to go to g3 and g4
\* but not to g5, the pawn on c2 behind its own knight on c3 refused both c3
\* and c4, and the pawn on d2 free to go to d3 but not onto the Black pawn on
\* d4.
C17_Witness ==
  /\ game_state = "UNFINISHED" /\ turn = "White"
  /\ board[<<"c", "3">>] = 11 /\ board[<<"d", "4">>] = 20
  /\ board[<<"c", "4">>] = NoPiece
  /\ make_move(<<"g", "2">>, <<"g", "3">>).result = "True"
  /\ make_move(<<"g", "2">>, <<"g", "4">>).result = "True"
  /\ make_move(<<"g", "2">>, <<"g", "5">>).result = "IllegalMoveError"
  /\ make_move(<<"c", "2">>, <<"c", "3">>).result = "IllegalMoveError"
  /\ make_move(<<"c", "2">>, <<"c", "4">>).result = "IllegalMoveError"
  /\ make_move(<<"d", "2">>, <<"d", "3">>).result = "True"
  /\ make_move(<<"d", "2">>, <<"d", "4">>).result = "IllegalMoveError"

\* C18: a request for a pawn of the player on turn in which file and rank both
\* change is accepted exactly when it goes one file aside and one rank
\* forward and the destination holds an opposing piece, on the starting rank
\* and off it; onto an empty square, onto an own piece or further than one
\* square it is refused with IllegalMoveError.
C18_PawnDiagonalCaptureOnly ==
  game_state = "UNFINISHED" =>
    \A p \in OnTurn({"Pawn"}), d \in BoardKeys :
      (FileDelta(position[p], d) # 0 /\ RankDelta(position[p], d) # 0) =>
        \E r \in {make_move(position[p], d)} :
          /\ (r.result = "True") <=>
               /\ Abs(FileDelta(position[p], d)) = 1
               /\ Forward(p, d) = 1
               /\ board[d] # NoPiece
               /\ get_owner(board[d]) # get_owner(p)
          /\ (r.result = "True") => (r.position[board[d]] = NonePos)
          /\ (r.result # "True") => (r.result = "IllegalMoveError")

\* C18 witness: White is on turn, the pawn on b2, on its starting rank, may
\* take the Black bishop on a3 but not go to the empty c3, and the pawn on e4,
\* off its starting rank, may take the Black pawn on d5 but not go to the
\* empty f5, nor to c6 two squares along the diagonal.
C18_Witness ==
  /\ game_state = "UNFINISHED" /\ turn = "White"
  /\ board[<<"b", "2">>] = 2 /\ board[<<"a", "3">>] = 30
  /\ board[<<"e", "4">>] = 5 /\ board[<<"d", "5">>] = 20
  /\ board[<<"c", "3">>] = NoPiece /\ board[<<"f", "5">>] = NoPiece
  /\ make_move(<<"b", "2">>, <<"a", "3">>).result = "True"
  /\ make_move(<<"b", "2">>, <<"c", "3">>).result = "IllegalMoveError"
  /\ make_move(<<"e", "4">>, <<"d", "5">>).result = "True"
  /\ make_move(<<"e", "4">>, <<"f", "5">>).result = "IllegalMoveError"
  /\ make_move(<<"e", "4">>, <<"c", "6">>).result = "IllegalMoveError"

\* C19: a straight request for a pawn of the player on turn that stands off
\* its starting rank is accepted exactly when it goes one square forward onto
\* an empty square; and for every pawn on turn a request that does not go
\* forward, backward or sideways, and a straight request onto an occupied
\* square, are refused.  Forward is up the board for White, down for Black.
C19_PawnOffStartingRank ==
  game_state = "UNFINISHED" =>
    \A p \in OnTurn({"Pawn"}) : \A d \in BoardKeys \ {position[p]} :
      \E r \in {make_move(position[p], d)} :
        /\ (~OnStartRank(p) /\ FileDelta(position[p], d) = 0) =>
             ((r.result = "True") <=> (Forward(p, d) = 1 /\ board[d] = NoPiece))
        /\ (Forward(p, d) <= 0) => (r.result = "IllegalMoveError")
        /\ (FileDelta(position[p], d) = 0 /\ board[d] # NoPiece) =>
             (r.result = "IllegalMoveError")
        /\ (r.result # "True") => (r.result = "IllegalMoveError")

\* C19 witness: White is on turn with its pawn on e4 and the Black pawn on d4;
\* the pawn on e4 may go to the empty e5 but not to the empty e6 behind it,
\* nor back to e3, nor aside to f4 or onto the pawn on d4; the pawn on d2 may
\* not go onto the pawn on d4, and the pawn on c2 not onto its own knight.
C19_Witness ==
  /\ game_state = "UNFINISHED" /\ turn = "White"
  /\ board[<<"e", "4">>] = 5 /\ board[<<"d", "4">>] = 20
  /\ board[<<"c", "3">>] = 11
  /\ board[<<"e", "5">>] = NoPiece /\ board[<<"e", "6">>] = NoPiece
  /\ make_move(<<"e", "4">>, <<"e", "5">>).result = "True"
  /\ make_move(<<"e", "4">>, <<"e", "6">>).result = "IllegalMoveError"
  /\ make_move(<<"e", "4">>, <<"e", "3">>).result = "IllegalMoveError"
  /\ make_move(<<"e", "4">>, <<"f", "4">>).result = "IllegalMoveError"
  /\ make_move(<<"e", "4">>, <<"d", "4">>).result = "IllegalMoveError"
  /\ make_move(<<"d", "2">>, <<"d", "4">>).result = "IllegalMoveError"
  /\ make_move(<<"c", "2">>, <<"c", "3">>).result = "IllegalMoveError"

\* C20: an accepted move goes from a square s to a square d such that
\* afterwards s is empty and d holds the moving piece, whose position is d; a
\* piece that stood on d has no position and is gone from its owner's list;
\* every other square keeps its occupant, every other piece its position, and
\* the mover's list stays as it was.
C20_EffectOfAcceptedMove ==
  [][Accepted =>
       \E s \in BoardKeys, d \in BoardKeys :
         /\ s # d
         /\ board[s] # NoPiece
         /\ board'[s] = NoPiece
         /\ board'[d] = board[s]
         /\ position'[board[s]] = d
         /\ (board[d] # NoPiece) =>
              /\ position'[board[d]] = NonePos
              /\ Roster(piece_list'[get_owner(board[d])])
                   = Roster(piece_list[get_owner(board[d])]) \ {board[d]}
         /\ (board[d] = NoPiece) => (piece_list' = piece_list)
         /\ \A k \in BoardKeys \ {s, d} : board'[k] = board[k]
         /\ \A q \in Pieces \ {board[s], board[d]} : position'[q] = position[q]
         /\ piece_list'[get_owner(board[s])] = piece_list[get_owner(board[s])]]_vars

\* C20 witness: the White queen has just taken the pawn of f7 from h5: it
\* stands on f7, h5 is empty, and the pawn has no position and is not in
\* Black's list.
C20_Witness ==
  /\ result = "True" /\ turn = "Black"
  /\ board[<<"f", "7">>] = 15 /\ position[15] = <<"f", "7">>
  /\ board[<<"h", "5">>] = NoPiece
  /\ position[22] = NonePos
  /\ 22 \notin Roster(piece_list["Black"])

\* The pieces that have been captured: those without a position.
Captured == {p \in Pieces : position[p] = NonePos}

\* C21: a captured piece stays captured: it has no position, stands on no
\* square and is in no list, in the state it was captured in and in every
\* later one; no list ever grows and no piece comes into a list.
C21_CaptureIsIrreversible ==
  [][ /\ \A p \in Captured :
           /\ position'[p] = NonePos
           /\ \A k \in BoardKeys : board'[k] # p
           /\ \A c \in Colors : p \notin Roster(piece_list'[c])
      /\ \A c \in Colors :
           /\ Len(piece_list'[c]) <= Len(piece_list[c])
           /\ Roster(piece_list'[c]) \subseteq Roster(piece_list[c]) ]_vars

\* C21 witness: the Black pawn of f7 was captured by White's third move and
\* Black has made a move since, which did not end the game.
C21_Witness ==
  /\ 22 \in Captured
  /\ moves = 6 /\ turn = "White"
  /\ result = "True"
  /\ game_state = "UNFINISHED"

\* C22: every piece in a player's list is owned by that player and is in the
\* list once; no piece is in both lists; a captured piece is in neither.  (The
\* owner of a piece is given with the piece and is assigned nowhere after its
\* creation.)
C22_RosterExclusivity ==
  /\ \A c \in Colors :
       /\ \A p \in Roster(piece_list[c]) : get_owner(p) = c
       /\ Cardinality(Roster(piece_list[c])) = Len(piece_list[c])
  /\ Roster(piece_list["White"]) \cap Roster(piece_list["Black"]) = {}
  /\ \A p \in Captured, c \in Colors : p \notin Roster(piece_list[c])

\* C22 witness: each player has captured a piece of the other.
C22_Witness ==
  /\ \E p \in Captured : get_owner(p) = "White"
  /\ \E p \in Captured : get_owner(p) = "Black"

\* The types of the first and the eighth rank in the starting placement of
\* chess, from file a to file h.
BackRank ==
  <<"Rook", "Knight", "Bishop", "Queen", "King", "Bishop", "Knight", "Rook">>

\* The square k holds a piece of the given type and colour.
Holds(k, type, color) ==
  board[k] # NoPiece /\ get_type(board[k]) = type /\ get_owner(board[k]) = color

\* C23: as long as no move has been accepted the game is as constructed:
\* UNFINISHED, White to move, sixteen pieces in each list, the White pieces
\* on the first rank and the White pawns on the second, the Black pawns on the
\* seventh rank and the Black pieces on the eighth, queens on d and kings on
\* e, the ranks 3 to 6 empty; every occupant has its square as position, every
\* piece occupies its position and the lists hold exactly the occupants.
C23_FreshGame ==
  (moves = 0) =>
    /\ game_state = "UNFINISHED" /\ turn = "White"
    /\ \A c \in Colors : Len(piece_list[c]) = 16
    /\ \A i \in 1..8 :
         /\ Holds(<<Files[i], "1">>, BackRank[i], "White")
         /\ Holds(<<Files[i], "2">>, "Pawn", "White")
         /\ Holds(<<Files[i], "7">>, "Pawn", "Black")
         /\ Holds(<<Files[i], "8">>, BackRank[i], "Black")
         /\ \A j \in 3..6 : board[<<Files[i], Ranks[j]>>] = NoPiece
    /\ \A k \in BoardKeys : board[k] # NoPiece => position[board[k]] = k
    /\ \A p \in Pieces : position[p] \in BoardKeys /\ board[position[p]] = p
    /\ Roster(piece_list["White"]) \cup Roster(piece_list["Black"])
         = {board[k] : k \in BoardKeys} \ {NoPiece}

\* C23 witness: the game as constructed, before any call.
C23_Witness ==
  /\ moves = 0 /\ result = "None"
  /\ Holds(<<"d", "1">>, "Queen", "White") /\ Holds(<<"e", "8">>, "King", "Black")


\* What stands on a square of a board: nothing, or a (type, colour).
Occupant(some_board, k) ==
  IF some_board[k] = NoPiece THEN <<>>
  ELSE <<get_type(some_board[k]), get_owner(some_board[k])>>

\* C24: saving an UNFINISHED game and loading the record gives a game with
\* the same turn, state UNFINISHED, the same (type, colour) or emptiness on
\* each of the 64 squares and rosters listing the saved (type, square) pairs
\* in the saved order; in it every occupied square holds a piece whose
\* position is that square, every listed piece stands on a square that holds
\* it, the listed pieces are the pieces on the board, each in the list of its
\* owner and once; and the loading raises nothing.
C24_SaveLoadRoundTrip ==
  (game_state = "UNFINISHED") =>
    \E saved \in {save_game} : \E g \in {load_game(saved)} :
      /\ g.result = "None"
      /\ g.turn = turn
      /\ g.game_state = "UNFINISHED"
      /\ \A k \in BoardKeys : Occupant(g.board, k) = Occupant(board, k)
      /\ \A c \in Colors :
           /\ [i \in 1..Len(g.piece_list[c]) |->
                 <<get_type(g.piece_list[c][i]),
                   g.position[g.piece_list[c][i]]>>]
              = saved[IF c = "White" THEN 2 ELSE 3]
           /\ Cardinality(Roster(g.piece_list[c])) = Len(g.piece_list[c])
           /\ \A p \in Roster(g.piece_list[c]) :
                /\ get_owner(p) = c
                /\ g.position[p] \in BoardKeys
                /\ g.board[g.position[p]] = p
      /\ \A k \in BoardKeys :
           g.board[k] # NoPiece =>
             /\ g.position[g.board[k]] = k
             /\ g.board[k] \in Roster(g.piece_list[get_owner(g.board[k])])

\* C24 witness: an UNFINISHED game loaded from a record saved after White
\* lost the e-pawn and the a-pawn and Black the d-pawn, with the black queen
\* on a2: the pieces of the new game stand for the saved ones by their order,
\* so the pawn on b2 of the loaded game is the new game's a-pawn and its
\* pawn on e7 the new game's d-pawn.
C24_Witness ==
  /\ game_state = "UNFINISHED" /\ result = "None" /\ moves = 6
  /\ Len(piece_list["White"]) = 14 /\ Len(piece_list["Black"]) = 15
  /\ position[1] = <<"b", "2">> /\ board[<<"b", "2">>] = 1
  /\ position[20] = <<"e", "7">> /\ board[<<"e", "7">>] = 20
  /\ board[<<"a", "2">>] = 31
  /\ piece_list["White"][1] = 1
  /\ saves = 1 /\ file = save_game

\* The game state that says the player of a colour has won.
WonBy(c) == IF c = "White" THEN "WHITE_WON" ELSE "BLACK_WON"

\* The kings of a colour in its list and on the board.
Kings(c) ==
  {p \in Roster(piece_list[c]) :
     get_type(p) = "King" /\ \E k \in BoardKeys : board[k] = p}

\* C25: while the game is UNFINISHED each player has exactly one King, in
\* its list and on the board; so an accepted move that captures a King
\* leaves its owner without one and sets the win state of the mover.
C25_KingCaptureEndsGame ==
  /\ [](game_state = "UNFINISHED" =>
          \A c \in Colors : Cardinality(Kings(c)) = 1)
  /\ [][\A p \in Removed :
          (Accepted /\ get_type(p) = "King") =>
            /\ get_owner(p) = Other(turn)
            /\ Kings(get_owner(p))' = {}
            /\ game_state' = WonBy(turn)]_vars

\* C25 witness: White's queen took the Black king on e8 and White has won.
C25_Witness ==
  /\ position[32] = NonePos
  /\ get_type(32) = "King"
  /\ Holds(<<"e", "8">>, "Queen", "White")
  /\ game_state = "WHITE_WON"
  /\ result = "True"


\* The pawns standing on the rank farthest from their own side.
FarRankPawns ==
  {p \in Pieces :
     /\ get_type(p) = "Pawn"
     /\ position[p] # NonePos
     /\ position[p][2] = IF get_owner(p) = "White" THEN "8" ELSE "1"}

\* No step puts a piece on the board that did not stand on it before: the
\* piece on the destination of a move is the piece that left the origin.
NoNewPiece ==
  \A k \in BoardKeys :
    board'[k] # NoPiece => \E j \in BoardKeys : board[j] = board'[k]

\* C26 (as claimed): a pawn on the far rank is still the Pawn that was
\* created, and make_move from its square to any square of the board raises
\* IllegalMoveError.
C26_FarRankPawnIsIllegalMove ==
  /\ [](game_state = "UNFINISHED" =>
          \A p \in FarRankPawns : \A d \in BoardKeys :
            make_move(position[p], d).result = "IllegalMoveError")
  /\ [][NoNewPiece]_vars

\* C26 (amended): the type of a piece is given with the piece and no step
\* replaces a piece by another; in an UNFINISHED game make_move from the
\* square of a pawn on the far rank to any square of the board is refused and
\* changes nothing: with IllegalMoveError when the pawn's owner is on turn,
\* with MoveOutOfTurnError when the other player is.
C26_FarRankPawnIsRefused ==
  /\ [](game_state = "UNFINISHED" =>
          \A p \in FarRankPawns : \A d \in BoardKeys :
            /\ make_move(position[p], d).result =
                 IF get_owner(p) = turn THEN "IllegalMoveError"
                 ELSE "MoveOutOfTurnError"
            /\ ChangesNothing(make_move(position[p], d)))
  /\ [][NoNewPiece]_vars

\* C26 witness: White's a-pawn stands on c8 next to the Black pawn of d7 and
\* Black's h-pawn on f1 next to the White pawn of e2, and White is on turn.
C26_Witness ==
  /\ game_state = "UNFINISHED" /\ turn = "White"
  /\ position[1] = <<"c", "8">> /\ position[24] = <<"f", "1">>
  /\ FarRankPawns = {1, 24}
  /\ Holds(<<"d", "7">>, "Pawn", "Black")
  /\ Holds(<<"e", "2">>, "Pawn", "White")
  /\ result = "IllegalMoveError"


\* C27: set_turn(color), for White and for Black, makes the player of that
\* colour the turn holder and leaves the board, the positions of the pieces,
\* the two lists and the game state as they were.
C27_SetTurnFrame ==
  [][\A color \in Colors :
       SetTurn(color) =>
         /\ turn' = color
         /\ UNCHANGED <<board, position, piece_list, game_state>>]_vars

\* C27 witness: after three accepted moves, one of them a capture, it would
\* be Black's turn; set_turn("White") was called and it is White's.
C27_Witness ==
  /\ result = "None"
  /\ moves = 3
  /\ turn = "White"
  /\ game_state = "UNFINISHED"
  /\ Captured # {}


\* The six types of pieces.
Types == {"Pawn", "Knight", "Bishop", "Rook", "Queen", "King"}

\* The types of the pieces in a player's list.
TypesOf(c) == {get_type(p) : p \in Roster(piece_list[c])}

\* C28: while the game is UNFINISHED the list of each player holds at least
\* one piece of each of the six types.
C28_UnfinishedHasAllTypes ==
  (game_state = "UNFINISHED") => \A c \in Colors : TypesOf(c) = Types

\* C28 witness: each player has lost a pawn and the game goes on.
C28_Witness ==
  /\ game_state = "UNFINISHED"
  /\ \E p \in Captured : get_type(p) = "Pawn" /\ get_owner(p) = "White"
  /\ \E p \in Captured : get_type(p) = "Pawn" /\ get_owner(p) = "Black"
  /\ Len(piece_list["White"]) = 15 /\ Len(piece_list["Black"]) = 15


\* C29: in a won game the loser's list lacks exactly one of the six types
\* and the winner's list has all six, for WHITE_WON and for BLACK_WON; and a
\* won game stays won by the same player, so no game sees both win states.
C29_TerminalRosters ==
  /\ [](\A c \in Colors :
          (game_state = WonBy(c)) =>
            /\ Cardinality(Types \ TypesOf(Other(c))) = 1
            /\ TypesOf(c) = Types)
  /\ [][(game_state \in Terminal) => (game_state' = game_state)]_vars

\* C29 witness: Black has won by taking White's only queen, and calls were
\* made afterwards.
C29_Witness ==
  /\ game_state = "BLACK_WON"
  /\ Types \ TypesOf("White") = {"Queen"}
  /\ TypesOf("Black") = Types
  /\ result = "GameOverError"


\* C30: in an UNFINISHED game a request of the player on turn, for a piece of
\* any type, whose destination holds a piece of that player is refused with
\* IllegalMoveError and changes nothing; and every piece an accepted move
\* removes belongs to the player who was not on turn.
C30_NoOwnCapture ==
  /\ [](game_state = "UNFINISHED" =>
          \A p \in OnTurn(Types) : \A d \in BoardKeys :
            (board[d] # NoPiece /\ get_owner(board[d]) = turn) =>
              /\ make_move(position[p], d).result = "IllegalMoveError"
              /\ ChangesNothing(make_move(position[p], d)))
  /\ [][Accepted => \A c \in Removed : get_owner(c) = Other(turn)]_vars

\* C30 witness: White's queen has taken a Black bishop; White is on turn
\* again and its rook on a1 has a free path to its own pawn on a4, which is
\* refused.
C30_Witness ==
  /\ game_state = "UNFINISHED" /\ turn = "White" /\ result = "True"
  /\ \E c \in Captured : get_owner(c) = "Black" /\ get_type(c) = "Bishop"
  /\ Holds(<<"a", "1">>, "Rook", "White")
  /\ board[<<"a", "2">>] = NoPiece /\ board[<<"a", "3">>] = NoPiece
  /\ Holds(<<"a", "4">>, "Pawn", "White")
  /\ make_move(<<"a", "1">>, <<"a", "4">>).result = "IllegalMoveError"


\* The pawns on the board.
PawnsOnBoard == {p \in Pieces : get_type(p) = "Pawn" /\ position[p] # NonePos}

\* The ranks a pawn has advanced from s to d, counted towards the far side
\* of its owner.
Advance(p, s, d) ==
  IF get_owner(p) = "White" THEN RankDelta(s, d) ELSE -RankDelta(s, d)

\* C31: a pawn never goes back: every step that moves a pawn advances it by
\* one or two ranks towards the far side of its owner and changes its file
\* by at most one, and an advance of two is made from the square the pawn
\* was created on, along its file.  So a pawn is never behind its starting
\* rank, a pawn on its owner's starting rank stands where it was created, and
\* no request of two ranks is accepted for a pawn that has moved.
C31_PawnRanksMonotonic ==
  /\ [](\A p \in PawnsOnBoard :
          /\ Advance(p, StartPosition(p), position[p]) >= 0
          /\ OnStartRank(p) => position[p] = StartPosition(p))
  /\ [](game_state = "UNFINISHED" =>
          \A p \in OnTurn({"Pawn"}) : \A d \in BoardKeys :
            ( /\ make_move(position[p], d).result = "True"
              /\ Abs(RankDelta(position[p], d)) = 2 ) =>
              position[p] = StartPosition(p))
  /\ [][\A p \in PawnsOnBoard :
          (position'[p] # NonePos /\ position'[p] # position[p]) =>
            /\ Advance(p, position[p], position'[p]) \in {1, 2}
            /\ Abs(FileDelta(position[p], position'[p])) <= 1
            /\ Advance(p, position[p], position'[p]) = 2 =>
                 /\ position[p] = StartPosition(p)
                 /\ FileDelta(position[p], position'[p]) = 0]_vars

\* C31 witness: White's e-pawn went two squares to e4 and took on d5, a file
\* aside; on turn again, it is refused the empty d7 two squares ahead over the
\* empty d6, and accepted on d6.
C31_Witness ==
  /\ game_state = "UNFINISHED" /\ turn = "White"
  /\ position[5] = <<"d", "5">>
  /\ board[<<"d", "6">>] = NoPiece /\ board[<<"d", "7">>] = NoPiece
  /\ make_move(<<"d", "5">>, <<"d", "7">>).result = "IllegalMoveError"
  /\ make_move(<<"d", "5">>, <<"d", "6">>).result = "True"


\* The number of pieces of a type in a player's list.
CountOf(c, type) ==
  Cardinality({i \in 1..Len(piece_list[c]) : get_type(piece_list[c][i]) = type})

\* The number of pieces of a type a player starts with.
StartCount(type) ==
  CASE type = "Pawn" -> 8
    [] type = "Queen" -> 1
    [] type = "King" -> 1
    [] OTHER -> 2

\* The occupied squares, now and after the step.
Occupied == {k \in BoardKeys : board[k] # NoPiece}
OccupiedAfter == {k \in BoardKeys : board'[k] # NoPiece}

\* The step puts a piece on a square that held another piece.
Capturing ==
  \E k \in BoardKeys :
    board[k] # NoPiece /\ board'[k] # NoPiece /\ board'[k] # board[k]

\* C32: a player never has more than 8 Pawns, 2 Rooks, 2 Knights, 2 Bishops,
\* 1 Queen and 1 King; an accepted capturing move makes the list of the
\* player who was not on turn shorter by exactly one and leaves the mover's
\* list as long as it was; an accepted move that captures nothing leaves the
\* length of both lists and the number of occupied squares as they were.
C32_PieceCounts ==
  /\ [](\A c \in Colors : \A type \in Types : CountOf(c, type) <= StartCount(type))
  /\ [][Accepted =>
          IF Capturing
          THEN /\ Len(piece_list'[Other(turn)]) = Len(piece_list[Other(turn)]) - 1
               /\ Len(piece_list'[turn]) = Len(piece_list[turn])
          ELSE /\ \A c \in Colors : Len(piece_list'[c]) = Len(piece_list[c])
               /\ Cardinality(OccupiedAfter) = Cardinality(Occupied)]_vars

\* C32 witness: each queen has taken a pawn, White's on f7 and then Black's
\* on f2; thirty pieces are left, fifteen in each list.
C32_Witness ==
  /\ Len(piece_list["Black"]) = 15 /\ Len(piece_list["White"]) = 15
  /\ Cardinality(Occupied) = 30
  /\ Holds(<<"f", "7">>, "Queen", "White")
  /\ Holds(<<"f", "2">>, "Queen", "Black")
  /\ result = "True" /\ turn = "White"


\* The squares of the longest line of the board beyond its first square.
LongestWalk == Len(Files) - 1

\* The passes of the loop for the piece p and the destination d, counted up
\* to two more than the longest line has squares to walk.
Passes(p, d) ==
  SlidePasses(LongestWalk + 2, p, position[p], Direction(position[p], d), d)

\* The requests that reach the loop: a Bishop, Rook or Queen of the player
\* on turn and another square of the board.
Sliding == OnTurn({"Bishop", "Rook", "Queen"})

\* C33 (as claimed): for every request for a Bishop, Rook or Queen of the
\* player on turn, the loop of Piece.move ends after at most 7 passes.
C33_SlideEndsInSevenSteps ==
  game_state = "UNFINISHED" =>
    \A p \in Sliding : \A d \in BoardKeys \ {position[p]} :
      Passes(p, d) <= LongestWalk

\* C33 (amended): the loop ends after at most 8 passes, 7 over squares of
\* the board and one that steps off it; an accepted request takes as many
\* passes as the destination is squares away, and every request is answered.
C33_SlideEndsInEightPasses ==
  game_state = "UNFINISHED" =>
    \A p \in Sliding : \A d \in BoardKeys \ {position[p]} :
      /\ Passes(p, d) <= LongestWalk + 1
      /\ make_move(position[p], d).result \in {"True", "IllegalMoveError"}
      /\ make_move(position[p], d).result = "True" =>
           Passes(p, d) = Steps(position[p], d)

\* C33 witness: Black's bishop stands on a1, Black is on turn and the seven
\* squares from b2 to h8 are empty; the request for b8, which is up and to
\* the right but not on the diagonal, is refused after eight passes, the one
\* for h8 accepted after seven.
C33_Witness ==
  /\ game_state = "UNFINISHED" /\ turn = "Black"
  /\ Holds(<<"a", "1">>, "Bishop", "Black")
  /\ \A k \in Between(<<"a", "1">>, <<"h", "8">>) : board[k] = NoPiece
  /\ board[<<"h", "8">>] = NoPiece
  /\ Passes(board[<<"a", "1">>], <<"b", "8">>) = LongestWalk + 1
  /\ make_move(<<"a", "1">>, <<"b", "8">>).result = "IllegalMoveError"
  /\ Passes(board[<<"a", "1">>], <<"h", "8">>) = LongestWalk
  /\ make_move(<<"a", "1">>, <<"h", "8">>).result = "True"


\* The label of a square: the files go up with the number by one, the ranks
\* by ten, and a1 is the twelfth label.
LabelOf(k) == 10 * RankOf(k) + FileOf(k) + 1

\* What a label shows for the occupant of its square.
Shown(p) ==
  IF p = NoPiece THEN ""
  ELSE (CASE get_type(p) = "Knight" -> "Kn"
          [] get_type(p) = "Pawn" -> "P"
          [] get_type(p) = "Bishop" -> "B"
          [] get_type(p) = "Rook" -> "R"
          [] get_type(p) = "Queen" -> "Q"
          [] OTHER -> "K")
       \o (IF get_owner(p) = "White" THEN "(W)" ELSE "(B)")

\* Every label of a square shows the occupant of the square.
Displayed == \A k \in BoardKeys : label_text[LabelOf(k)] = Shown(board[k])

\* The dialogs mouse_click opens.
ClickDialogs == {"Illegal Move", "Move Out of Turn", "Game Over"}

\* The step is a second click that was refused: make_move raised one of its
\* three errors and the dialog of mouse_click came up.
RefusedClick == dialog = "None" /\ dialog' \in ClickDialogs

\* The present game was made by the constructor, by new_game or by a
\* load_game that returned.
GameMade == load_raised = "None"

\* Both squares are selected only while the window is open and a dialog of
\* mouse_click waits, or after the window was closed under such a dialog.
SecondSelectedInDialog ==
  selected_spaces[2] # NoWidget =>
    IF root = "open" THEN dialog \in ClickDialogs ELSE dialog = "None"

\* Every click on a square while one is selected either clears the
\* selection, or is refused and waits in a dialog with both squares selected;
\* every answer to such a dialog clears the selection.
SelectionCleared ==
  /\ \A m \in ClickedRequests :
       (/\ selected_spaces[1] = LabelAt(m[1])
        /\ OnBoardWidget(LabelAt(m[2]))
        /\ Click(LabelAt(m[2]))) =>
         \/ selected_spaces' = <<NoWidget, NoWidget>> /\ dialog' = "None"
         \/ /\ selected_spaces' = <<selected_spaces[1], LabelAt(m[2])>>
            /\ dialog' \in ClickDialogs
            /\ result' \in Rejections
  /\ \A response \in Responses :
       (dialog \in ClickDialogs /\ AnswerDialog(response)) =>
         selected_spaces' = <<NoWidget, NoWidget>>

\* The same where make_move can raise an error mouse_click does not handle,
\* which happens only in a game made by a load_game that raised: such a
\* click leaves the texts as they were and both squares selected, with no
\* dialog.
SelectionClearedOrLeft ==
  /\ \A m \in ClickedRequests :
       (/\ selected_spaces[1] = LabelAt(m[1])
        /\ OnBoardWidget(LabelAt(m[2]))
        /\ Click(LabelAt(m[2]))) =>
         \/ selected_spaces' = <<NoWidget, NoWidget>> /\ dialog' = "None"
         \/ /\ selected_spaces' = <<selected_spaces[1], LabelAt(m[2])>>
            /\ dialog' \in ClickDialogs
            /\ result' \in Rejections
         \/ /\ ~GameMade
            /\ result' \notin Rejections \cup {"True"}
            /\ selected_spaces' = <<selected_spaces[1], LabelAt(m[2])>>
            /\ dialog' = "None"
            /\ label_text' = label_text
  /\ \A response \in Responses :
       (dialog \in ClickDialogs /\ AnswerDialog(response)) =>
         selected_spaces' = <<NoWidget, NoWidget>>

\* C34 (as claimed): while the window is open each of the 64 labels of the
\* board shows the engine's occupant of its square, after clicks, New Game
\* and Load Game; a second click whose make_move raises GameOverError,
\* MoveOutOfTurnError or IllegalMoveError leaves the text of every label as it
\* was, when it is refused and when its dialog is answered; every second
\* click clears the selection, at once or with the answer to its dialog.
C34_ErrorsKeepLabels ==
  /\ [](root = "open" => Displayed)
  /\ [][(RefusedClick \/ dialog \in ClickDialogs) =>
          label_text' = label_text]_vars
  /\ [](SecondSelectedInDialog)
  /\ [][SelectionCleared]_vars

\* C34 (amended): the display and the selection are as claimed in every
\* game made by the constructor, by new_game or by a load_game that
\* returned, as it does on every file save_game wrote; the Game Over dialog
\* of a second click, answered Yes, starts a new game and shows its starting
\* position; the refused click itself, every other answer and every other
\* dialog leave the texts and the game as they were.  In a game made by a
\* load_game that raised nothing is said of the texts, and a click can end
\* in an error mouse_click does not handle, with both squares selected and
\* no dialog; they stay selected until a later click is accepted or its
\* dialog answered, so that both squares are selected outside a dialog only
\* after a file was loaded.
C34_DisplayConsistency ==
  /\ [](root = "open" /\ GameMade => Displayed)
  /\ [][RefusedClick =>
          /\ result' \in Rejections
          /\ label_text' = label_text /\ UNCHANGED engine]_vars
  /\ [][(dialog \in ClickDialogs) =>
          IF dialog = "Game Over" /\ game_state' = "UNFINISHED"
          THEN label_text' = setup_board_GUI(NewBoard) /\ moves' = 0
          ELSE label_text' = label_text /\ UNCHANGED engine]_vars
  /\ [](loads = 0 => SecondSelectedInDialog)
  /\ [][SelectionClearedOrLeft]_vars

\* C34 witness: White has won by clicks; a second click raised GameOverError
\* and the dialog was answered Yes: the labels show the starting position
\* of a new game, and nothing is selected.
C34_Witness ==
  /\ result = "GameOverError"
  /\ game_state = "UNFINISHED" /\ moves = 0 /\ root = "open"
  /\ dialog = "None"
  /\ selected_spaces = <<NoWidget, NoWidget>>
  /\ label_text[LabelOf(<<"e", "8">>)] = "K(B)"
  /\ label_text[LabelOf(<<"h", "5">>)] = ""
  /\ Displayed


\* The eight directions of a path.
PathDirections ==
  {"up", "down", "left", "right", "diagonal up right", "diagonal up left",
   "diagonal down right", "diagonal down left"}

\* The characters of the files and of the ranks.
FileChars == {Files[i] : i \in 1..Len(Files)}
RankChars == {Ranks[i] : i \in 1..Len(Ranks)}

\* The character whose code is by the given amount above the code of the
\* character, None when that is no file for a file, no rank for a rank.
Shifted(character, by) ==
  IF \E c \in (IF character \in FileChars THEN FileChars ELSE RankChars) :
       Ord[c] = Ord[character] + by
  THEN CHOOSE c \in FileChars \cup RankChars : Ord[c] = Ord[character] + by
  ELSE NoneChr

\* The distances next_position passes with a piece of the type: 1 and 2 for a
\* knight, none (0) for the others.
DistancesOf(type) == IF type = "Knight" THEN {1, 2} ELSE {0}

\* C35: iterate_position_str answers the file or rank shifted by one, by two
\* for a knight with distance 2, downwards for direction 0 and upwards
\* otherwise, and None exactly when the shifted value is before a or 1 or
\* after h or 8; whatever piece stands on whatever square, next_position
\* answers one of the 64 squares or None for every direction and every
\* destination.
C35_StepperStaysOnBoard ==
  /\ \A type \in Types, character \in FileChars \cup RankChars,
        direction \in {0, 1} :
       \A distance \in DistancesOf(type) :
         iterate_position_str(type, character, direction, distance) =
           Shifted(character,
                   (IF direction = 0 THEN -1 ELSE 1) *
                   (IF distance = 2 THEN 2 ELSE 1))
  /\ \A k \in BoardKeys :
       board[k] # NoPiece =>
         \A direction \in PathDirections, d \in BoardKeys :
           next_position(board[k], k, direction, d) \in BoardKeys \cup {NonePos}

\* C35 witness: White's knight has reached the corner h8: its jump back to
\* g6 and the one to f7 stay on the board, every step up or to the right
\* from the corner is None.
C35_Witness ==
  /\ Holds(<<"h", "8">>, "Knight", "White")
  /\ next_position(board[<<"h", "8">>], <<"h", "8">>, "diagonal down left",
                   <<"g", "6">>) = <<"g", "6">>
  /\ next_position(board[<<"h", "8">>], <<"h", "8">>, "diagonal down left",
                   <<"f", "7">>) = <<"f", "7">>
  /\ \A d \in BoardKeys :
       /\ next_position(board[<<"h", "8">>], <<"h", "8">>,
                        "diagonal up right", d) = NonePos
       /\ next_position(board[<<"h", "8">>], <<"h", "8">>,
                        "diagonal down right", d) = NonePos
       /\ next_position(board[<<"h", "8">>], <<"h", "8">>,
                        "diagonal up left", d) = NonePos
  /\ iterate_position_str("Knight", "h", 1, 1) = NoneChr
  /\ iterate_position_str("Knight", "8", 1, 2) = NoneChr
  /\ iterate_position_str("Knight", "h", 0, 2) = "f"

====
